---------------------------- MODULE Spec2Model ----------------------------
(***************************************************************************)
(* A model of sentry/snuba/discover.py: the Discover query executor        *)
(* (query, timeseries_query), the time bucketer (zerofill) and the         *)
(* top-events grouper (top_events_timeseries).                             *)
(*                                                                         *)
(* The module is stateless per call, so every specification has the same   *)
(* shape: Init draws one call (its arguments and the answers of the        *)
(* collaborators it will consult: the filter parser, the field-list        *)
(* resolver, the backend) and the single action of the operation runs the  *)
(* whole function and records how it ended.                                *)
(***************************************************************************)
EXTENDS Integers, Sequences, FiniteSets, TLC

VARIABLES
    op,     \* the operation called
    inp,    \* its arguments, and the collaborators' answers
    pc,     \* "call": not yet run, "done": returned or raised
    out     \* how the call ended

vars == <<op, inp, pc, out>>

(***************************************************************************)
(* Bounds of the model.                                                    *)
(***************************************************************************)
\* leaf conditions over the whole having list of one query
MaxLeaves == 3
\* rows in the data handed to zerofill
MaxRows == 2
\* top events handed to top_events_timeseries
MaxTop == 2
\* tag keys the facet key query returns, and the largest limit drawn
MaxTags == 3
\* buckets asked of a histogram
MaxBuckets == 3

(***************************************************************************)
(* Python values.  A value is a record tagged with its type, so that the   *)
(* untyped indexing of the having walk (arg[0], arg[1], agg_clause[-1])    *)
(* can be modelled as Python evaluates it, strings included.               *)
(***************************************************************************)
PyNone == [k |-> "none", s |-> "", n |-> 0, items |-> <<>>]
PyStr(s) == [k |-> "str", s |-> s, n |-> 0, items |-> <<>>]
PyInt(n) == [k |-> "int", s |-> "", n |-> n, items |-> <<>>]
PyList(xs) == [k |-> "list", s |-> "", n |-> 0, items |-> xs]
\* a datetime, as its seconds since the epoch
PyDatetime(t) == [k |-> "datetime", s |-> "", n |-> t, items |-> <<>>]

\* float("nan")
PyNaN == [k |-> "float", s |-> "nan", n |-> 0, items |-> <<>>]

\* a float with a whole value
PyFloat(n) == [k |-> "float", s |-> "", n |-> n, items |-> <<>>]

\* bool(v): None, 0, "" and [] are false; a datetime is always true
Truthy(v) ==
    CASE v.k = "none" -> FALSE
      [] v.k = "int" -> v.n # 0
      [] v.k = "str" -> v.s # ""
      [] v.k = "list" -> v.items # <<>>
      [] OTHER -> TRUE

\* The characters of the strings the model uses.
StrChars(s) ==
    CASE s = "and" -> <<"a", "n", "d">>
      [] s = "or" -> <<"o", "r">>
      [] s = "greater" -> <<"g", "r", "e", "a", "t", "e", "r">>
      [] s = "count_x" -> <<"c", "o", "u", "n", "t", "_", "x">>
      [] s = "p95_y" -> <<"p", "9", "5", "_", "y">>
      [] s = "count" -> <<"c", "o", "u", "n", "t">>
      [] s = "p95" -> <<"p", "9", "5">>
      [] s = "x" -> <<"x">>
      [] s = "y" -> <<"y">>
      [] s = "time" -> <<"t", "i", "m", "e">>
      [] s = "-time" -> <<"-", "t", "i", "m", "e">>
      [] s = "-count" -> <<"-", "c", "o", "u", "n", "t">>
      [] s = "a" -> <<"a">>
      [] s = "b" -> <<"b">>
      [] s = "P-1" -> <<"P", "-", "1">>
      [] s = "unknown" -> <<"u", "n", "k", "n", "o", "w", "n">>
      [] s = "None" -> <<"N", "o", "n", "e">>
      [] s = "project" -> <<"p", "r", "o", "j", "e", "c", "t">>
      [] s = "project_id" -> <<"p", "r", "o", "j", "e", "c", "t", "_", "i", "d">>
      [] s = "transaction" -> <<"t", "r", "a", "n", "s", "a", "c", "t", "i", "o", "n">>
      [] s = "timestamp" -> <<"t", "i", "m", "e", "s", "t", "a", "m", "p">>
      [] s = "user.display" ->
           <<"u", "s", "e", "r", ".", "d", "i", "s", "p", "l", "a", "y">>
      [] s = "error.type" -> <<"e", "r", "r", "o", "r", ".", "t", "y", "p", "e">>
      [] s = "exception_stacks.type" ->
           <<"e", "x", "c", "e", "p", "t", "i", "o", "n", "_", "s", "t", "a", "c", "k", "s",
             ".", "t", "y", "p", "e">>
      [] s = "issue.id" -> <<"i", "s", "s", "u", "e", ".", "i", "d">>
      [] s = "=" -> <<"=">>
      [] s = ">" -> <<">">>
      [] OTHER -> <<s>>

\* len(v) of a list or a string
PyLen(v) == IF v.k = "list" THEN Len(v.items) ELSE Len(StrChars(v.s))

\* The exception v[i] raises, "" when it raises none (i is 0, 1 or -1).
SubscriptError(v, i) ==
    IF v.k \notin {"list", "str"} THEN "TypeError"
    ELSE IF (i >= 0 /\ i >= PyLen(v)) \/ (i < 0 /\ -i > PyLen(v)) THEN "IndexError"
    ELSE ""

\* v[i], for a v and an i where it raises nothing
Subscript(v, i) ==
    LET j == IF i >= 0 THEN i + 1 ELSE PyLen(v) + 1 + i
    IN  IF v.k = "list" THEN v.items[j] ELSE PyStr(StrChars(v.s)[j])

\* The elements "for x in v" visits, for a list or a string.
Iterate(v) ==
    IF v.k = "list" THEN v.items
    ELSE [j \in 1..Len(StrChars(v.s)) |-> PyStr(StrChars(v.s)[j])]

(***************************************************************************)
(* Exceptions and outcomes.                                                *)
(***************************************************************************)
NoExc == [kind |-> "", text |-> "", names |-> <<>>, extra |-> FALSE]

InvalidSearchQuery(text, names, extra) ==
    [kind |-> "InvalidSearchQuery", text |-> text, names |-> names, extra |-> extra]

PyError(kind) == [kind |-> kind, text |-> "", names |-> <<>>, extra |-> FALSE]

\* An outcome: how the call ended, the collaborators it called in order, the
\* arguments of each backend query it issued, and the rows it returned.
NoOut == [status |-> "none", exc |-> NoExc, calls |-> <<>>, queries |-> <<>>, data |-> <<>>]

Raised(exc, calls, queries) ==
    [status |-> "raised", exc |-> exc, calls |-> calls, queries |-> queries, data |-> <<>>]

Returned(calls, queries, data) ==
    [status |-> "returned", exc |-> NoExc, calls |-> calls, queries |-> queries, data |-> data]

\* the arguments of one raw_query call
BackendQuery(aggregations, having, conditions) ==
    [aggregations |-> aggregations, having |-> having, conditions |-> conditions]

\* how many times the collaborator c was called
CallCount(calls, c) == Cardinality({i \in 1..Len(calls) : calls[i] = c})

(***************************************************************************)
(* Rows.  A row is a Python dict, modelled as the sequence of its items    *)
(* in insertion order.                                                     *)
(***************************************************************************)
Item(key, val) == [key |-> key, val |-> val]

DictKeys(row) == {row[i].key : i \in 1..Len(row)}

\* row[key], for a key the row has
DictItem(row, key) == row[CHOOSE i \in 1..Len(row) : row[i].key = key].val

\* row.get(key)
DictGet(row, key) == IF key \in DictKeys(row) THEN DictItem(row, key) ELSE PyNone

\* row[key] = val
DictSet(row, key, val) ==
    IF key \in DictKeys(row)
    THEN [i \in 1..Len(row) |-> IF row[i].key = key THEN Item(key, val) ELSE row[i]]
    ELSE Append(row, Item(key, val))

\* a backend row of a time series: its bucket and a count
DataRow(time, count) == <<Item("time", PyInt(time)), Item("count", PyInt(count))>>

SeqRange(s) == {s[i] : i \in 1..Len(s)}

\* the sequences over S of length at most n
RECURSIVE SeqsUpTo(_, _)
SeqsUpTo(S, n) ==
    IF n = 0 THEN {<<>>}
    ELSE LET shorter == SeqsUpTo(S, n - 1)
         IN  shorter \cup {Append(s, x) : s \in {q \in shorter : Len(q) = n - 1}, x \in S}

(***************************************************************************)
(* zerofill(), lines 84-106.  start and end are seconds since the epoch    *)
(* (to_naive_timestamp of the datetime), which are not negative for the    *)
(* time range of an event query.                                           *)
(***************************************************************************)
\* int(a / b): Python's int() truncates toward zero
IntOfQuotient(a, b) == IF a >= 0 THEN a \div b ELSE -((-a) \div b)

\* line 86
MutZerofillStart(start, rollup) == start

ZerofillStart(start, rollup) == IntOfQuotient(start, rollup) * rollup

\* line 87
ZerofillEnd(end, rollup) == (IntOfQuotient(end, rollup) * rollup) + rollup

\* lines 90-94: data_by_time, a dict from the time of a row to the rows
\* that have it, in the order of data
RECURSIVE GroupByTime(_, _)
GroupByTime(data, data_by_time) ==
    IF data = <<>> THEN data_by_time
    ELSE
      LET obj == Head(data)
          time == DictItem(obj, "time")
      IN  GroupByTime(Tail(data),
              IF time \in DOMAIN data_by_time
              THEN [data_by_time EXCEPT ![time] = Append(@, obj)]
              ELSE [t \in DOMAIN data_by_time \cup {time} |->
                      IF t = time THEN <<obj>> ELSE data_by_time[t]])

\* line 101
MutSyntheticRow(key) == <<Item("time", PyInt(key)), Item("count", PyInt(0))>>

SyntheticRow(key) == <<Item("time", PyInt(key))>>

\* lines 96-101: "for key in xrange(start, end, rollup)", from key on
RECURSIVE FillBuckets(_, _, _, _, _)
FillBuckets(key, end, rollup, rv, data_by_time) ==
    IF key >= end THEN rv
    ELSE IF PyInt(key) \in DOMAIN data_by_time /\ Len(data_by_time[PyInt(key)]) > 0
    THEN FillBuckets(key + rollup, end, rollup, rv \o data_by_time[PyInt(key)],
                     [data_by_time EXCEPT ![PyInt(key)] = <<>>])
    ELSE FillBuckets(key + rollup, end, rollup, Append(rv, SyntheticRow(key)), data_by_time)

\* whether needle occurs in hay, as "needle in hay" decides for two strings
StrContains(hay, needle) ==
    LET h == StrChars(hay)
        d == StrChars(needle)
    IN  \E o \in 0..(Len(h) - Len(d)) : \A j \in 1..Len(d) : h[o + j] = d[j]

\* line 103: "-time" in orderby, for a string or a list
MutDescendingTime(orderby) == FALSE

DescendingTime(orderby) ==
    IF orderby.k = "list" THEN PyStr("-time") \in {orderby.items[i] : i \in 1..Len(orderby.items)}
    ELSE StrContains(orderby.s, "-time")

Reversed(s) == [i \in 1..Len(s) |-> s[Len(s) + 1 - i]]

Zerofill(data, start, end, rollup, orderby) ==
    LET rv == FillBuckets(ZerofillStart(start, rollup), ZerofillEnd(end, rollup), rollup,
                          <<>>, GroupByTime(data, <<>>))
    IN  IF DescendingTime(orderby) THEN Reversed(rv) ELSE rv

(***************************************************************************)
(* query(): the validation of the having clauses, lines 249-289.           *)
(***************************************************************************)
SNUBA_AND == "and"
SNUBA_OR == "or"

\* any(alias == agg_clause[-1] for agg_clause in snuba_filter.aggregations)
MutFoundInAggregations(alias, aggregations) ==
    \E i \in 1..Len(aggregations) : alias = Subscript(aggregations[i], 0)

FoundInAggregations(alias, aggregations) ==
    \E i \in 1..Len(aggregations) : alias = Subscript(aggregations[i], -1)

WalkState(err, stack, missing) == [err |-> err, stack |-> stack, missing |-> missing]

\* "for arg in args" over the elements left to visit; stack is args_to_check
\* and missing is conditions_not_in_aggregations.
RECURSIVE ForArgInArgs(_, _, _, _)
ForArgInArgs(elems, stack, missing, aggregations) ==
    IF elems = <<>> THEN WalkState("", stack, missing)
    ELSE
      LET arg == Head(elems)
          rest == Tail(elems)
      IN  IF SubscriptError(arg, 0) # "" THEN WalkState(SubscriptError(arg, 0), stack, missing)
          ELSE IF Subscript(arg, 0) \in {PyStr(SNUBA_AND), PyStr(SNUBA_OR)} THEN
            \* args_to_check.extend(arg[1])
            IF SubscriptError(arg, 1) # "" THEN WalkState(SubscriptError(arg, 1), stack, missing)
            ELSE IF Subscript(arg, 1).k \notin {"list", "str"} THEN WalkState("TypeError", stack, missing)
            ELSE ForArgInArgs(rest, stack \o Iterate(Subscript(arg, 1)), missing, aggregations)
          ELSE IF SubscriptError(arg, 1) # "" THEN WalkState(SubscriptError(arg, 1), stack, missing)
          ELSE IF Subscript(arg, 1).k = "list" THEN
            IF SubscriptError(Subscript(arg, 1), 0) # ""
            THEN WalkState(SubscriptError(Subscript(arg, 1), 0), stack, missing)
            ELSE
              LET alias == Subscript(Subscript(arg, 1), 0)
              IN  ForArgInArgs(rest, stack,
                      IF FoundInAggregations(alias, aggregations) THEN missing
                      ELSE Append(missing, alias),
                      aggregations)
          ELSE ForArgInArgs(rest, stack, missing, aggregations)

\* "while len(args_to_check) > 0: args = args_to_check.pop(); for arg in args"
RECURSIVE WhileArgsToCheck(_, _, _)
WhileArgsToCheck(stack, missing, aggregations) ==
    IF stack = <<>> THEN WalkState("", stack, missing)
    ELSE
      LET args == stack[Len(stack)]
          popped == SubSeq(stack, 1, Len(stack) - 1)
      IN  IF args.k \notin {"list", "str"} THEN WalkState("TypeError", popped, missing)
          ELSE
            LET r == ForArgInArgs(Iterate(args), popped, missing, aggregations)
            IN  IF r.err # "" THEN r ELSE WhileArgsToCheck(r.stack, r.missing, aggregations)

\* ", ".join(names): the names in order, a TypeError unless all are strings
JoinNames(values) == [i \in 1..Len(values) |-> values[i].s]

\* The body of "for having_clause in snuba_filter.having" for one clause: the
\* exception it raises, NoExc when the clause passes.
CheckHavingClause(having_clause, aggregations, auto_aggregations) ==
    IF Subscript(having_clause, 0).k = "list" THEN
      LET w == WhileArgsToCheck(<<PyList(<<Subscript(having_clause, 0)>>)>>, <<>>, aggregations)
      IN  IF w.err # "" THEN PyError(w.err)
          ELSE IF Len(w.missing) > 0 THEN
            IF \E i \in 1..Len(w.missing) : w.missing[i].k # "str" THEN PyError("TypeError")
            ELSE InvalidSearchQuery(
                   "Aggregate(s) {} used in a condition but are not in the selected columns{}.",
                   JoinNames(w.missing), auto_aggregations)
          ELSE NoExc
    ELSE IF ~FoundInAggregations(Subscript(having_clause, 0), aggregations) THEN
      InvalidSearchQuery(
          "Aggregate {} used in a condition but is not a selected column{}.",
          <<Subscript(having_clause, 0).s>>, auto_aggregations)
    ELSE NoExc

\* The loop over snuba_filter.having: the first exception raised, NoExc if none.
RECURSIVE ValidateHaving(_, _, _)
ValidateHaving(having, aggregations, auto_aggregations) ==
    IF having = <<>> THEN NoExc
    ELSE
      LET e == CheckHavingClause(Head(having), aggregations, auto_aggregations)
      IN  IF e.kind # "" THEN e
          ELSE ValidateHaving(Tail(having), aggregations, auto_aggregations)

(***************************************************************************)
(* The calls of query() the model draws.  The having list and the          *)
(* aggregations are those of snuba_filter at line 250: what get_filter     *)
(* parsed and resolve_field_list resolved.  A leaf condition is            *)
(* [fn, [alias, value]], a combinator node is [SNUBA_AND | SNUBA_OR,       *)
(* [lhs, rhs]]; a having clause is [alias, operator, value] or             *)
(* [function, "=", 1].                                                     *)
(***************************************************************************)
Aliases == {"count_x", "p95_y"}

Leaf(alias) == PyList(<<PyStr("greater"), PyList(<<PyStr(alias), PyInt(1)>>)>>)
Node(operator, lhs, rhs) == PyList(<<PyStr(operator), PyList(<<lhs, rhs>>)>>)
FlatClause(alias) == PyList(<<PyStr(alias), PyStr(">"), PyInt(1)>>)
FunctionClause(tree) == PyList(<<tree, PyStr("="), PyInt(1)>>)

\* the condition trees with exactly n leaves
RECURSIVE HavingTrees(_)
HavingTrees(n) ==
    IF n = 1 THEN {Leaf(a) : a \in Aliases}
    ELSE UNION {{Node(o, l, r) : o \in {SNUBA_AND, SNUBA_OR},
                                 l \in HavingTrees(i), r \in HavingTrees(n - i)}
                : i \in 1..(n - 1)}

\* the having clauses with exactly n leaves
HavingClauses(n) ==
    {FunctionClause(t) : t \in HavingTrees(n)}
        \cup (IF n = 1 THEN {FlatClause(a) : a \in Aliases} ELSE {})

\* the having lists with exactly n leaves in all
RECURSIVE HavingLists(_)
HavingLists(n) ==
    IF n = 0 THEN {<<>>}
    ELSE UNION {{<<c>> \o rest : c \in HavingClauses(i), rest \in HavingLists(n - i)}
                : i \in 1..n}

\* an aggregation is [function, column, alias]
AggregationLists ==
    LET count == PyList(<<PyStr("count"), PyStr("x"), PyStr("count_x")>>)
        p95 == PyList(<<PyStr("p95"), PyStr("y"), PyStr("p95_y")>>)
    IN  {<<>>, <<count>>, <<p95>>, <<count, p95>>}

QueryArgs(cols, auto, use, fok, rok, having, aggs) ==
    [selected_columns |-> cols, auto_aggregations |-> auto,
     use_aggregate_conditions |-> use, filter_ok |-> fok, resolve_ok |-> rok,
     having |-> having, aggregations |-> aggs]

\* the having lists of at most MaxLeaves leaves
HavingInputs == UNION {HavingLists(n) : n \in 0..MaxLeaves}

ColumnInputs == {<<>>, <<"title", "count_x">>}

\* A parse that fails leaves no filter, a resolution that fails no aggregations.
QueryInputs(a) ==
    \E cols \in ColumnInputs, auto \in BOOLEAN, use \in BOOLEAN :
        \/ a = QueryArgs(cols, auto, use, FALSE, TRUE, <<>>, <<>>)
        \/ a = QueryArgs(cols, auto, use, TRUE, FALSE, <<>>, <<>>)
        \/ \E h \in HavingInputs, aggs \in AggregationLists :
               a = QueryArgs(cols, auto, use, TRUE, TRUE, h, aggs)

(***************************************************************************)
(* query(), lines 171-317.                                                 *)
(***************************************************************************)
\* "if not selected_columns", line 209
MutNoColumnsSelected(selected_columns) == FALSE

NoColumnsSelected(selected_columns) == Len(selected_columns) = 0

\* "assert not auto_aggregations", lines 222-224: whether the assertion fails
MutAutoAggregationsAsserted(auto_aggregations) == FALSE

AutoAggregationsAsserted(auto_aggregations) == auto_aggregations

QueryOutcome(a) ==
    IF NoColumnsSelected(a.selected_columns)
    THEN Raised(InvalidSearchQuery("No columns selected", <<>>, FALSE), <<>>, <<>>)
    \* snuba_filter = get_filter(query, params)
    ELSE IF ~a.filter_ok
    THEN Raised(InvalidSearchQuery("get_filter", <<>>, FALSE), <<"get_filter">>, <<>>)
    ELSE IF ~a.use_aggregate_conditions /\ AutoAggregationsAsserted(a.auto_aggregations)
    THEN Raised(PyError("AssertionError"), <<"get_filter">>, <<>>)
    ELSE
      LET \* snuba_filter.having = []
          having == IF ~a.use_aggregate_conditions THEN <<>> ELSE a.having
      IN  \* resolved_fields = resolve_field_list(...)
          IF ~a.resolve_ok
          THEN Raised(InvalidSearchQuery("resolve_field_list", <<>>, FALSE),
                      <<"get_filter", "resolve_field_list">>, <<>>)
          ELSE
            LET e == ValidateHaving(having, a.aggregations, a.auto_aggregations)
            IN  IF e.kind # ""
                THEN Raised(e, <<"get_filter", "resolve_field_list">>, <<>>)
                ELSE Returned(<<"get_filter", "resolve_field_list", "raw_query",
                                "transform_results">>,
                              <<BackendQuery(a.aggregations, having, <<>>)>>, <<>>)

(***************************************************************************)
(* get_timeseries_snuba_filter(), lines 320-337, and timeseries_query(),   *)
(* lines 340-387.                                                          *)
(***************************************************************************)
\* line 322: "if not snuba_filter.start and not snuba_filter.end"
StartAndEndMissing(start, end) == ~Truthy(start) /\ ~Truthy(end)

\* line 335: snuba_filter.aggregations[0][2] = "count"
RelabelCount(aggregations) ==
    <<PyList([aggregations[1].items EXCEPT ![3] = PyStr("count")])>>

\* The filter it returns: the exception raised (NoExc if none), the
\* collaborators called, and the aggregations of the filter.
TimeseriesFilter(exc, calls, aggregations) ==
    [exc |-> exc, calls |-> calls, aggregations |-> aggregations]

GetTimeseriesSnubaFilter(a, default_count) ==
    IF ~a.filter_ok
    THEN TimeseriesFilter(InvalidSearchQuery("get_filter", <<>>, FALSE), <<"get_filter">>, <<>>)
    ELSE IF StartAndEndMissing(a.start, a.end)
    THEN TimeseriesFilter(
           InvalidSearchQuery("Cannot get timeseries result without a start and end.",
                              <<>>, FALSE),
           <<"get_filter">>, <<>>)
    ELSE IF ~a.resolve_ok
    THEN TimeseriesFilter(InvalidSearchQuery("resolve_field_list", <<>>, FALSE),
                          <<"get_filter", "resolve_field_list">>, <<>>)
    ELSE IF Len(a.aggregations) = 0
    THEN TimeseriesFilter(
           InvalidSearchQuery("Cannot get timeseries result with no aggregation.",
                              <<>>, FALSE),
           <<"get_filter", "resolve_field_list">>, <<>>)
    ELSE TimeseriesFilter(NoExc, <<"get_filter", "resolve_field_list">>,
                          IF Len(a.aggregations) = 1 /\ default_count
                          THEN RelabelCount(a.aggregations) ELSE a.aggregations)

\* zerofill() called by one of the time series: naiveify_datetime reads
\* dt.tzinfo, an AttributeError when start or end is None
ZerofillSeries(calls, queries, data, start, end, rollup) ==
    IF start.k = "none" \/ end.k = "none"
    THEN Raised(PyError("AttributeError"), calls, queries)
    ELSE Returned(calls, queries, Zerofill(data, start.n, end.n, rollup, PyStr("time")))

TimeseriesQueryOutcome(a) ==
    LET f == GetTimeseriesSnubaFilter(a, TRUE)
    IN  IF f.exc.kind # "" THEN Raised(f.exc, f.calls, <<>>)
        ELSE ZerofillSeries(Append(f.calls, "raw_query"),
                            <<BackendQuery(f.aggregations, <<>>, <<>>)>>,
                            a.data, a.start, a.end, a.rollup)

\* The calls of timeseries_query() the model draws.  The backend groups by
\* time: its rows are one per bucket of the range.
TimeseriesArgs(fok, rok, start, end, aggs, rollup, data) ==
    [filter_ok |-> fok, resolve_ok |-> rok, start |-> start, end |-> end,
     aggregations |-> aggs, rollup |-> rollup, data |-> data]

StartInputs == {PyNone, PyDatetime(0), PyDatetime(5)}
EndInputs == {PyNone, PyDatetime(12), PyDatetime(25)}

SeriesDataInputs ==
    {<<>>, <<DataRow(10, 1)>>, <<DataRow(0, 2), DataRow(10, 1)>>}

TimeseriesInputs(a) ==
    \/ a = TimeseriesArgs(FALSE, TRUE, PyNone, PyNone, <<>>, 10, <<>>)
    \/ \E start \in StartInputs, end \in EndInputs, rollup \in {5, 10} :
          \/ a = TimeseriesArgs(TRUE, FALSE, start, end, <<>>, rollup, <<>>)
          \/ \E aggs \in AggregationLists, data \in SeriesDataInputs :
                a = TimeseriesArgs(TRUE, TRUE, start, end, aggs, rollup, data)

TimeseriesQuery ==
    /\ op = "timeseries_query"
    /\ pc = "call"
    /\ out' = TimeseriesQueryOutcome(inp)
    /\ pc' = "done"
    /\ UNCHANGED <<op, inp>>

Query ==
    /\ op = "query"
    /\ pc = "call"
    /\ out' = QueryOutcome(inp)
    /\ pc' = "done"
    /\ UNCHANGED <<op, inp>>

InitExecutor ==
    /\ \/ op = "query" /\ QueryInputs(inp)
       \/ op = "timeseries_query" /\ TimeseriesInputs(inp)
    /\ pc = "call"
    /\ out = NoOut

NextExecutor == Query \/ TimeseriesQuery

SpecExecutor == InitExecutor /\ [][NextExecutor]_vars

(***************************************************************************)
(* Claims about query().                                                   *)
(***************************************************************************)
QueryDone == op = "query" /\ pc = "done"

\* a query whose filter parsed and whose fields resolved, with aggregate
\* conditions enabled: one that reaches the having validation
QueryValidated ==
    /\ QueryDone
    /\ inp.selected_columns # <<>>
    /\ inp.use_aggregate_conditions
    /\ inp.filter_ok
    /\ inp.resolve_ok

IsFlat(clause) == clause.items[1].k = "str"
FlatAlias(clause) == clause.items[1].s

\* the output aliases of the resolved aggregations [function, column, alias]
AggregationAliases(aggregations) ==
    {aggregations[i].items[3].s : i \in 1..Len(aggregations)}

FlatMissing(clause, aggregations) ==
    IsFlat(clause) /\ FlatAlias(clause) \notin AggregationAliases(aggregations)

FlatPresent(clause, aggregations) ==
    IsFlat(clause) /\ FlatAlias(clause) \in AggregationAliases(aggregations)

\* the aliases of the leaves [fn, [alias, value]] of a condition tree
RECURSIVE LeafAliases(_)
LeafAliases(tree) ==
    IF tree.items[1].s \in {SNUBA_AND, SNUBA_OR}
    THEN LeafAliases(tree.items[2].items[1]) \cup LeafAliases(tree.items[2].items[2])
    ELSE {tree.items[2].items[1].s}

\* C1: query() with an empty selected_columns fails with InvalidSearchQuery
\* before any collaborator is called: no filter parse, no backend call,
\* whatever the other arguments are.
ThmC1_EmptyColumnsFailFirst ==
    (QueryDone /\ inp.selected_columns = <<>>) =>
        /\ out.status = "raised"
        /\ out.exc.kind = "InvalidSearchQuery"
        /\ out.exc.text = "No columns selected"
        /\ out.calls = <<>>

WitC1_EmptyColumnsCall ==
    /\ QueryDone
    /\ inp.selected_columns = <<>>
    /\ inp.auto_aggregations
    /\ ~inp.use_aggregate_conditions
    /\ ~inp.filter_ok
    /\ out.status = "raised"

CexC3_EveryMissingLeafAliasNamed ==
    (QueryValidated /\ \A i \in 1..Len(inp.having) : ~IsFlat(inp.having[i])) =>
        LET leaves == UNION {LeafAliases(inp.having[i].items[1]) : i \in 1..Len(inp.having)}
            missing == leaves \ AggregationAliases(inp.aggregations)
        IN  /\ (missing # {}) <=>
                  (out.status = "raised" /\ out.exc.kind = "InvalidSearchQuery")
            /\ out.status = "raised" => SeqRange(out.exc.names) = missing

\* C4 as claimed: auto_aggregations without use_aggregate_conditions fails
\* with InvalidSearchQuery, and no backend call is issued.
CexC4_AutoAggregationsInvalidSearchQuery ==
    (QueryDone /\ inp.auto_aggregations /\ ~inp.use_aggregate_conditions) =>
        /\ out.status = "raised"
        /\ out.exc.kind = "InvalidSearchQuery"
        /\ CallCount(out.calls, "raw_query") = 0

\* C4 as amended: auto_aggregations without use_aggregate_conditions always
\* fails with no backend call, but the error is the AssertionError of the
\* assert statement whenever the columns are not empty and the filter
\* parsed; InvalidSearchQuery comes only from the empty-column check or from
\* the filter parser, both of which run before the assertion.
ThmC4_AutoAggregationsAssertionError ==
    (QueryDone /\ inp.auto_aggregations /\ ~inp.use_aggregate_conditions) =>
        /\ out.status = "raised"
        /\ CallCount(out.calls, "raw_query") = 0
        /\ (inp.selected_columns # <<>> /\ inp.filter_ok) =>
              (out.exc.kind = "AssertionError" /\ out.calls = <<"get_filter">>)
        /\ (inp.selected_columns = <<>> \/ ~inp.filter_ok) =>
              out.exc.kind = "InvalidSearchQuery"

WitC4_AssertionRaised ==
    /\ QueryDone
    /\ inp.auto_aggregations
    /\ ~inp.use_aggregate_conditions
    /\ inp.having # <<>>
    /\ out.exc.kind = "AssertionError"

(***************************************************************************)
(* The calls of zerofill() the model draws: rows that share a time, rows   *)
(* whose time is no bucket key (5 when rollup is 10) or lies outside the   *)
(* range (30), bounds that are not multiples of rollup, and orderby as     *)
(* the string the time series pass or the list a filter holds.             *)
(***************************************************************************)
RowInputs == {DataRow(t, c) : t \in {0, 5, 10, 20, 30}, c \in {1, 2}}

DataInputs == SeqsUpTo(RowInputs, MaxRows)

OrderbyInputs ==
    {PyStr("time"), PyStr("-time"), PyList(<<>>), PyList(<<PyStr("time")>>),
     PyList(<<PyStr("-count"), PyStr("-time")>>)}

ZerofillInputs(a) ==
    \E data \in DataInputs, start \in {0, 5, 12}, end \in {5, 12, 25},
       rollup \in {5, 10}, orderby \in OrderbyInputs :
        /\ start <= end
        /\ a = [data |-> data, start |-> start, end |-> end, rollup |-> rollup,
                orderby |-> orderby]

ZerofillCall ==
    /\ op = "zerofill"
    /\ pc = "call"
    /\ out' = Returned(<<>>, <<>>,
                       Zerofill(inp.data, inp.start, inp.end, inp.rollup, inp.orderby))
    /\ pc' = "done"
    /\ UNCHANGED <<op, inp>>

InitZerofill ==
    /\ op = "zerofill"
    /\ ZerofillInputs(inp)
    /\ pc = "call"
    /\ out = NoOut

NextZerofill == ZerofillCall

SpecZerofill == InitZerofill /\ [][NextZerofill]_vars

(***************************************************************************)
(* Claims about zerofill().                                                *)
(***************************************************************************)
ZerofillDone == op = "zerofill" /\ pc = "done"

\* floor(start / rollup) * rollup and floor(end / rollup) * rollup + rollup
NormalizedStart == (inp.start \div inp.rollup) * inp.rollup
NormalizedEnd == ((inp.end \div inp.rollup) * inp.rollup) + inp.rollup
BucketCount == (NormalizedEnd - NormalizedStart) \div inp.rollup
BucketKeys == {NormalizedStart + (i * inp.rollup) : i \in 0..(BucketCount - 1)}

TimeOf(row) == DictItem(row, "time").n

\* the rows of s whose time is key, in the order of s
RowsAt(s, key) == LET AtKey(row) == TimeOf(row) = key IN SelectSeq(s, AtKey)

\* how many times row occurs in s
Occurrences(s, row) == Cardinality({i \in 1..Len(s) : s[i] = row})

\* C6 as claimed: the number of output rows is
\* (normalized_end - normalized_start) / rollup, and every bucket key is the
\* time of exactly one output row.
CexC6_OneRowPerBucket ==
    ZerofillDone =>
        /\ Len(out.data) = BucketCount
        /\ \A key \in BucketKeys : Len(RowsAt(out.data, key)) = 1

\* C6 as amended: the times of the output rows are exactly the
\* (normalized_end - normalized_start) / rollup bucket keys, each the time of
\* at least one output row; a bucket holds one row unless several input rows
\* have its key as their time, and then it holds all of them, so the number
\* of output rows is the bucket count plus the surplus rows of such buckets.
ThmC6_EveryBucketOnce ==
    ZerofillDone =>
        /\ {TimeOf(out.data[i]) : i \in 1..Len(out.data)} = BucketKeys
        /\ Cardinality(BucketKeys) = BucketCount
        /\ \A key \in BucketKeys :
              Len(RowsAt(out.data, key)) =
                IF Len(RowsAt(inp.data, key)) > 1 THEN Len(RowsAt(inp.data, key)) ELSE 1
        /\ Len(out.data) =
              BucketCount
              + Cardinality({i \in 1..Len(inp.data) : TimeOf(inp.data[i]) \in BucketKeys})
              - Cardinality({key \in BucketKeys : RowsAt(inp.data, key) # <<>>})

WitC6_SharedBucket ==
    /\ ZerofillDone
    /\ inp.start = 5
    /\ inp.rollup = 10
    /\ Len(RowsAt(inp.data, 20)) = 2
    /\ Len(out.data) = BucketCount + 1

\* C7: for each bucket key of the range the output holds the input rows
\* with that time, unchanged and each as often as in the input, and no
\* synthetic row; or, exactly when no input row has that time, the one row
\* {"time": key}.  No other row is output.
ThmC7_BucketContents ==
    ZerofillDone =>
        /\ \A key \in BucketKeys :
              IF RowsAt(inp.data, key) # <<>>
              THEN \A row \in SeqRange(inp.data) \cup SeqRange(out.data) :
                     TimeOf(row) = key =>
                       Occurrences(out.data, row) = Occurrences(inp.data, row)
              ELSE RowsAt(out.data, key) = <<<<[key |-> "time", val |-> PyInt(key)]>>>>
        /\ \A i \in 1..Len(out.data) : TimeOf(out.data[i]) \in BucketKeys

WitC7_FilledAndEmptyBuckets ==
    /\ ZerofillDone
    /\ inp.rollup = 10
    /\ inp.start = 0
    /\ inp.end = 25
    /\ Len(inp.data) = 2
    /\ inp.data[1] = inp.data[2]
    /\ TimeOf(inp.data[1]) = 20
    /\ Len(out.data) = 4

\* C8: unless orderby asks for "-time" the output is in non-decreasing time
\* order and the rows of one bucket keep their input order; when it does,
\* the output is that sequence reversed.
RequestsDescendingTime ==
    IF inp.orderby.k = "list"
    THEN \E i \in 1..Len(inp.orderby.items) : inp.orderby.items[i].s = "-time"
    ELSE inp.orderby.s = "-time"

ThmC8_Ordering ==
    ZerofillDone =>
        LET ascending == IF RequestsDescendingTime THEN Reversed(out.data) ELSE out.data
        IN  /\ \A i \in 1..(Len(ascending) - 1) :
                  TimeOf(ascending[i]) <= TimeOf(ascending[i + 1])
            /\ \A key \in BucketKeys :
                  RowsAt(inp.data, key) # <<>> =>
                    RowsAt(ascending, key) = RowsAt(inp.data, key)

WitC8_DescendingSharedBucket ==
    /\ ZerofillDone
    /\ RequestsDescendingTime
    /\ Len(RowsAt(inp.data, 10)) = 2
    /\ inp.data[1] # inp.data[2]
    /\ 10 \in BucketKeys
    /\ Len(out.data) >= 3
    /\ TimeOf(out.data[1]) > TimeOf(out.data[Len(out.data)])

(***************************************************************************)
(* Claims about timeseries_query().                                        *)
(***************************************************************************)
TimeseriesDone == op = "timeseries_query" /\ pc = "done"

\* C5: as claimed, a parsed filter that lacks start or lacks end (either one)
\* makes the time series fail with InvalidSearchQuery before any backend
\* call.
CexC5_StartOrEndMissingFails ==
    (/\ TimeseriesDone
     /\ inp.filter_ok
     /\ (inp.start = PyNone \/ inp.end = PyNone)) =>
        /\ out.status = "raised"
        /\ out.exc.kind = "InvalidSearchQuery"
        /\ CallCount(out.calls, "raw_query") = 0

(***************************************************************************)
(* transform_data(), lines 132-168.                                        *)
(***************************************************************************)
\* translated_columns.get(key, key); the dictionary is a sequence of
\* [key, val] items with plain strings as values
Translate(translated_columns, key) ==
    IF key \in DictKeys(translated_columns) THEN DictItem(translated_columns, key) ELSE key

\* lines 146-153: get_row(row)
RECURSIVE GetRow(_, _, _)
GetRow(row, translated_columns, transformed) ==
    IF row = <<>> THEN transformed
    ELSE LET value == IF Head(row).val = PyNaN THEN PyInt(0) ELSE Head(row).val
         IN  GetRow(Tail(row), translated_columns,
                    DictSet(transformed, Translate(translated_columns, Head(row).key), value))

\* lines 155-166: the rows of the transformed result
TransformData(data, translated_columns, rollup, start, end, orderby) ==
    LET renamed == IF Len(translated_columns) > 0
                   THEN [i \in 1..Len(data) |-> GetRow(data[i], translated_columns, <<>>)]
                   ELSE data
    IN  IF Truthy(rollup) /\ rollup.n > 0
        THEN Zerofill(renamed, start.n, end.n, rollup.n, orderby)
        ELSE renamed

(***************************************************************************)
(* create_result_key(), lines 390-403.  A key is the sequence of its       *)
(* characters.                                                             *)
(***************************************************************************)
Digits == <<"0", "1", "2", "3", "4", "5", "6", "7", "8", "9">>

RECURSIVE IntChars(_)
IntChars(n) ==
    IF n < 0 THEN <<"-">> \o IntChars(0 - n)
    ELSE IF n < 10 THEN <<Digits[n + 1]>>
    ELSE IntChars(n \div 10) \o <<Digits[(n % 10) + 1]>>

\* six.text_type(value)
TextType(value) ==
    CASE value.k = "str" -> StrChars(value.s)
      [] value.k = "int" -> IntChars(value.n)
      [] value.k = "none" -> StrChars("None")
      [] value.k = "float" -> StrChars(value.s)
      [] OTHER -> <<"[", "]">>

\* issues.get(id, "unknown"): issues is a sequence of [key, val] items from
\* group id to short id
IssuesGet(issues, id) ==
    IF \E i \in 1..Len(issues) : issues[i].key = id
    THEN StrChars((CHOOSE it \in {issues[i] : i \in 1..Len(issues)} : it.key = id).val)
    ELSE StrChars("unknown")

\* lines 393-402: the text of one field of the key
KeyValue(result_row, field, issues) ==
    IF field = "issue.id"
    THEN IssuesGet(issues, DictItem(result_row, "issue.id"))
    ELSE LET value == DictGet(result_row, field)
         IN  IF value.k = "list"
             THEN IF Len(value.items) > 0
                  THEN TextType(value.items[Len(value.items)])
                  ELSE <<>>
             ELSE TextType(value)

\* ",".join(values)
RECURSIVE JoinComma(_)
JoinComma(values) ==
    IF values = <<>> THEN <<>>
    ELSE IF Len(values) = 1 THEN values[1]
    ELSE values[1] \o <<",">> \o JoinComma(Tail(values))

create_result_key(result_row, fields, issues) ==
    JoinComma([i \in 1..Len(fields) |-> KeyValue(result_row, fields[i], issues)])

(***************************************************************************)
(* top_events_timeseries(), lines 406-568.                                 *)
(***************************************************************************)
\* The characters of the field names, in code point order.
CodePoints ==
    <<".", "0", "1", "2", "3", "4", "5", "6", "7", "8", "9", "[", "]", "_",
      "a", "b", "c", "d", "e", "f", "g", "h", "i", "j", "k", "l", "m",
      "n", "o", "p", "q", "r", "s", "t", "u", "v", "w", "x", "y", "z">>

CodePoint(c) == CHOOSE i \in 1..Len(CodePoints) : CodePoints[i] = c

\* a < b for two strings given as their characters
RECURSIVE CharsLess(_, _)
CharsLess(a, b) ==
    IF b = <<>> THEN FALSE
    ELSE IF a = <<>> THEN TRUE
    ELSE IF Head(a) = Head(b) THEN CharsLess(Tail(a), Tail(b))
    ELSE CodePoint(Head(a)) < CodePoint(Head(b))

\* list.sort() of a list of strings (line 539)
RECURSIVE SortStrings(_)
SortStrings(xs) ==
    IF xs = <<>> THEN <<>>
    ELSE LET least == CHOOSE i \in 1..Len(xs) :
                         \A j \in 1..Len(xs) :
                            j = i \/ ~CharsLess(StrChars(xs[j]), StrChars(xs[i]))
             rest == [j \in 1..(Len(xs) - 1) |-> IF j < least THEN xs[j] ELSE xs[j + 1]]
         IN  <<xs[least]>> \o SortStrings(rest)

\* "x in selected_columns"
InList(x, xs) == \E i \in 1..Len(xs) : xs[i] = x

\* lines 525-530 and 539: the group-by fields under their public names,
\* sorted
TranslatedGroupby(a) ==
    LET translated_columns == IF InList("project", a.selected_columns)
                              THEN DictSet(a.translated_columns, "project_id", "project")
                              ELSE a.translated_columns
    IN  SortStrings([i \in 1..Len(a.groupby) |->
                        Translate(translated_columns, a.groupby[i])])

\* lines 541-545: one entry per top event key, a later event with the key
\* of an earlier one replacing its entry; "order" is the 0-based index
RECURSIVE TopEventEntries(_, _, _, _, _)
TopEventEntries(top_events, index, fields, issues, results) ==
    IF index > Len(top_events) THEN results
    ELSE LET result_key == create_result_key(top_events[index], fields, issues)
             entry == [order |-> index - 1, data |-> <<>>]
         IN  TopEventEntries(top_events, index + 1, fields, issues,
                 [k \in (DOMAIN results) \cup {result_key} |->
                     IF k = result_key THEN entry ELSE results[k]])

MutEntriesOf(result_key, results) == DOMAIN results

\* lines 547-549: the entries "results[result_key]" a row is appended to,
\* none when "result_key in results" is false
EntriesOf(result_key, results) == {k \in DOMAIN results : k = result_key}

\* lines 546-554: each row goes to the entry of its key; a row whose key
\* has no entry is logged and left out
RECURSIVE RouteRows(_, _, _, _)
RouteRows(rows, fields, issues, routed) ==
    IF rows = <<>> THEN routed
    ELSE LET result_key == create_result_key(Head(rows), fields, issues)
             entries == EntriesOf(result_key, routed.results)
         IN  IF entries # {}
             THEN RouteRows(Tail(rows), fields, issues,
                    [routed EXCEPT !.results =
                        [k \in DOMAIN routed.results |->
                            IF k \in entries
                            THEN [routed.results[k] EXCEPT !.data = Append(@, Head(rows))]
                            ELSE routed.results[k]]])
             ELSE RouteRows(Tail(rows), fields, issues,
                    [routed EXCEPT !.warnings = Append(@, result_key)])

\* What a call of top_events_timeseries() leaves behind: the outcome, its
\* shape ("series" for one SnubaTSResult, "mapping" for one per key), the
\* entries after the routing loop, the mapping returned and the keys logged
\* as mismatches.
TopEventsResult(outcome, shape, routed, series, warnings) ==
    [status |-> outcome.status, exc |-> outcome.exc, calls |-> outcome.calls,
     queries |-> outcome.queries, data |-> outcome.data,
     shape |-> shape, routed |-> routed, series |-> series, warnings |-> warnings]

\* line 511: "if not allow_empty and not len(result.get("data", []))"
EmptyResultSeries(allow_empty, data) == ~allow_empty /\ Len(data) = 0

\* FIELD_ALIASES of sentry.api.event_search: the pseudo fields and the alias
\* each of them stands for
FIELD_ALIASES ==
    <<Item("project", "project.id"), Item("issue", "issue.id"),
      Item("user.display", "user.display")>>

\* "field in FIELD_ALIASES"
InFieldAliases(field) == \E i \in 1..Len(FIELD_ALIASES) : FIELD_ALIASES[i].key = field

\* lines 470-471: the key under which a top event holds the field
FieldAlias(field) ==
    IF InFieldAliases(field)
    THEN (CHOOSE it \in SeqRange(FIELD_ALIASES) : it.key = field).val
    ELSE field

\* resolve_column(Dataset.Discover): the backend column of a public name
resolve_discover_column(col) ==
    CASE col = "error.type" -> "exception_stacks.type"
      [] OTHER -> col

\* lines 473-479: the values the top events hold for the field, the list
\* values left out; a set, as in the code
ObservedValues(field, top_events) ==
    {DictItem(top_events[i], field) :
        i \in {j \in 1..Len(top_events) :
                  /\ field \in DictKeys(top_events[j])
                  /\ DictItem(top_events[j], field).k # "list"}}

\* one clause of a condition: [column, op, values], or [["isNull", [column]],
\* "=", 1] when isNull is set
Clause(isNull, column, cmp, values) ==
    [isNull |-> isNull, column |-> column, cmp |-> cmp, values |-> values]

\* a condition appended to snuba_filter.conditions: a list of clauses of
\* which one has to hold (nested) or one clause on its own
Condition(nested, clauses) == [nested |-> nested, clauses |-> clauses]

MutFieldCondition(field, values) ==
    IF field = "timestamp"
    THEN Condition(TRUE, {Clause(FALSE, "timestamp", "=", {value}) : value \in values})
    ELSE LET non_none_values == values \ {PyNone}
         IN  Condition(TRUE,
                 {Clause(TRUE, resolve_discover_column(field), "=", {PyInt(1)})}
                 \cup (IF non_none_values # {}
                       THEN {Clause(FALSE, resolve_discover_column(field), "IN",
                                    non_none_values)}
                       ELSE {}))

\* lines 482-493: the condition of a field with observed values
FieldCondition(field, values) ==
    IF field = "timestamp"
    THEN Condition(TRUE, {Clause(FALSE, "timestamp", "=", {value}) : value \in values})
    ELSE IF PyNone \in values
    THEN LET non_none_values == values \ {PyNone}
         IN  Condition(TRUE,
                 {Clause(TRUE, resolve_discover_column(field), "=", {PyInt(1)})}
                 \cup (IF non_none_values # {}
                       THEN {Clause(FALSE, resolve_discover_column(field), "IN",
                                    non_none_values)}
                       ELSE {}))
    ELSE IF InFieldAliases(field)
    THEN Condition(FALSE, {Clause(FALSE, field, "IN", values)})
    ELSE Condition(FALSE, {Clause(FALSE, resolve_discover_column(field), "IN", values)})

\* lines 466-493: the conditions appended for the selected columns, in their
\* order; "project" and "project.id" are skipped, and so is a field without
\* observed values
RECURSIVE TopEventConditions(_, _, _)
TopEventConditions(selected_columns, top_events, conditions) ==
    IF selected_columns = <<>> THEN conditions
    ELSE LET field == FieldAlias(Head(selected_columns))
             values == ObservedValues(field, top_events)
         IN  IF Head(selected_columns) \in {"project", "project.id"} \/ values = {}
             THEN TopEventConditions(Tail(selected_columns), top_events, conditions)
             ELSE TopEventConditions(Tail(selected_columns), top_events,
                                     Append(conditions, FieldCondition(field, values)))

TopEventsOutcome(a) ==
    LET fetched == IF a.top_events_given THEN <<>> ELSE <<"query">>
        f == GetTimeseriesSnubaFilter(a, FALSE)
        calls == fetched \o f.calls \o <<"raw_query">>
        queries == <<BackendQuery(f.aggregations, <<>>,
                                  TopEventConditions(a.selected_columns, a.top_events, <<>>))>>
        fields == TranslatedGroupby(a)
        issue == InList("issue", a.selected_columns)
        issues == IF issue THEN a.issues ELSE <<>>
        data == TransformData(a.data, a.translated_columns, a.filter_rollup,
                              a.start, a.end, PyNone)
        entries == TopEventEntries(a.top_events, 1, fields, issues, <<>>)
        routed == RouteRows(data, fields, issues, [results |-> entries, warnings |-> <<>>])
        transformed == calls \o <<"transform_data">>
                             \o (IF issue THEN <<"issues_mapping">> ELSE <<>>)
    IN  \* lines 441-452: top_events = query(...)
        IF ~a.top_events_given /\ ~a.query_ok
        THEN TopEventsResult(Raised(InvalidSearchQuery("query", <<>>, FALSE), fetched, <<>>),
                             "none", <<>>, <<>>, <<>>)
        ELSE IF f.exc.kind # ""
        THEN TopEventsResult(Raised(f.exc, fetched \o f.calls, <<>>), "none", <<>>, <<>>, <<>>)
        ELSE IF EmptyResultSeries(a.allow_empty, a.data)
        THEN LET series == ZerofillSeries(calls, queries, <<>>, a.start, a.end, a.rollup)
             IN  TopEventsResult(series, IF series.status = "returned" THEN "series" ELSE "none",
                                 <<>>, <<>>, <<>>)
        \* lines 555-566: zerofill() of every entry
        ELSE IF DOMAIN routed.results # {} /\ (a.start.k = "none" \/ a.end.k = "none")
        THEN TopEventsResult(Raised(PyError("AttributeError"), transformed, queries),
                             "none", routed.results, <<>>, routed.warnings)
        ELSE TopEventsResult(Returned(transformed, queries, <<>>), "mapping", routed.results,
                 [k \in DOMAIN routed.results |->
                     [order |-> routed.results[k].order,
                      data |-> Zerofill(routed.results[k].data, a.start.n, a.end.n,
                                        a.rollup, PyStr("time"))]],
                 routed.warnings)

\* The calls of top_events_timeseries() the model draws.  A grouping is the
\* answer of the field resolver for one choice of selected_columns: the
\* backend group-by columns and their public names, the short ids of the
\* issues, and the values a top event and a backend row carry in those
\* columns.
Grouping(cols, groupby, translated, issues, top_events, groups) ==
    [selected_columns |-> cols, groupby |-> groupby, translated_columns |-> translated,
     issues |-> issues, top_events |-> top_events, groups |-> groups]

ErrorTypes ==
    {PyList(<<PyStr("a"), PyStr("b")>>), PyList(<<PyStr("b")>>), PyList(<<>>)}

ProjectTransactions ==
    {<<PyInt(1), PyStr("a")>>, <<PyInt(1), PyStr("b")>>, <<PyInt(2), PyStr("a")>>}

Groupings ==
    {Grouping(<<"transaction", "count()">>, <<"transaction">>, <<>>, <<>>,
              {<<Item("transaction", PyStr(v)), Item("count", PyInt(3))>> : v \in {"a", "b"}},
              {<<Item("transaction", PyStr(v))>> : v \in {"a", "b"}}),
     Grouping(<<"error.type", "count()">>, <<"exception_stacks.type">>,
              <<Item("exception_stacks.type", "error.type")>>, <<>>,
              {<<Item("error.type", v), Item("count", PyInt(3))>> : v \in ErrorTypes},
              {<<Item("exception_stacks.type", v)>> : v \in ErrorTypes}),
     Grouping(<<"issue", "count()">>, <<"issue.id">>, <<>>, <<Item(PyInt(1), "P-1")>>,
              {<<Item("issue.id", PyInt(v)), Item("count", PyInt(3))>> : v \in {1, 2}},
              {<<Item("issue.id", PyInt(v))>> : v \in {1, 2}}),
     Grouping(<<"transaction", "project", "count()">>, <<"transaction", "project_id">>,
              <<Item("project_id", "project")>>, <<>>,
              {<<Item("project", v[1]), Item("transaction", v[2]), Item("count", PyInt(3))>> :
                   v \in ProjectTransactions},
              {<<Item("project_id", v[1]), Item("transaction", v[2])>> :
                   v \in ProjectTransactions}),
     Grouping(<<"transaction", "project", "count()">>, <<"transaction", "project_id">>,
              <<>>, <<>>,
              {<<Item("project", v[1]), Item("transaction", v[2]), Item("count", PyInt(3))>> :
                   v \in ProjectTransactions},
              {<<Item("project_id", v[1]), Item("transaction", v[2])>> :
                   v \in ProjectTransactions})}

\* the backend rows of a grouping: one per time bucket and group, in the
\* order of the "time" column (orderby="time", groupby=["time"] + groupby)
GroupRows(g) ==
    {<<Item("time", PyInt(time))>> \o group \o <<Item("count", PyInt(1))>> :
        time \in {0, 10}, group \in g.groups}

BackendRows(g) ==
    {rows \in SeqsUpTo(GroupRows(g), MaxRows) :
        \A i, j \in 1..Len(rows) :
            i < j => /\ rows[i] # rows[j]
                     /\ DictItem(rows[i], "time").n <= DictItem(rows[j], "time").n}

TopEventsArgs(g, given, qok, top_events, fok, rok, start, end, aggs, allow_empty, data) ==
    [selected_columns |-> g.selected_columns, groupby |-> g.groupby,
     translated_columns |-> g.translated_columns, issues |-> g.issues,
     top_events_given |-> given, query_ok |-> qok, top_events |-> top_events,
     filter_ok |-> fok, resolve_ok |-> rok, start |-> start, end |-> end,
     filter_rollup |-> PyNone, aggregations |-> aggs, rollup |-> 10,
     allow_empty |-> allow_empty, data |-> data]

\* Backend rows are drawn for a filter with a start and one "count"
\* aggregation; the other filters are drawn with an empty result.
TopEventsInputs(a) ==
    \E g \in Groupings, allow_empty \in BOOLEAN :
       \/ a = TopEventsArgs(g, FALSE, FALSE, <<>>, TRUE, TRUE, PyDatetime(0), PyDatetime(12),
                            <<>>, allow_empty, <<>>)
       \/ \E given \in BOOLEAN, top_events \in SeqsUpTo(g.top_events, MaxTop) :
             \/ a = TopEventsArgs(g, given, TRUE, top_events, FALSE, TRUE, PyNone, PyNone,
                                  <<>>, allow_empty, <<>>)
             \/ \E start \in {PyNone, PyDatetime(0)}, end \in {PyNone, PyDatetime(12)} :
                   \/ a = TopEventsArgs(g, given, TRUE, top_events, TRUE, FALSE, start, end,
                                        <<>>, allow_empty, <<>>)
                   \/ \E aggs \in AggregationLists, data \in BackendRows(g) :
                         /\ data # <<>> => (Len(aggs) = 1 /\ start # PyNone
                                                /\ aggs[1].items[1] = PyStr("count"))
                         /\ a = TopEventsArgs(g, given, TRUE, top_events, TRUE, TRUE,
                                              start, end, aggs, allow_empty, data)

TopEventsTimeseries ==
    /\ op = "top_events_timeseries"
    /\ pc = "call"
    /\ out' = TopEventsOutcome(inp)
    /\ pc' = "done"
    /\ UNCHANGED <<op, inp>>

InitTopEvents ==
    /\ op = "top_events_timeseries"
    /\ TopEventsInputs(inp)
    /\ pc = "call"
    /\ out = NoOut

NextTopEvents == TopEventsTimeseries

SpecTopEvents == InitTopEvents /\ [][NextTopEvents]_vars

\* The calls drawn for the conditions of the second query: the groupings
\* above, one of two fields of which the second is a pseudo field that may be
\* null, and one by timestamp; the filter is complete and has one "count"
\* aggregation.
UserDisplays == {PyStr("a"), PyNone}

ConditionGroupings ==
    Groupings \cup
    {Grouping(<<"transaction", "user.display", "count()">>, <<"transaction", "user.display">>,
              <<>>, <<>>,
              {<<Item("transaction", PyStr(v)), Item("user.display", u), Item("count", PyInt(3))>> :
                   v \in {"a", "b"}, u \in UserDisplays},
              {<<Item("transaction", PyStr(v)), Item("user.display", u)>> :
                   v \in {"a", "b"}, u \in UserDisplays}),
     Grouping(<<"timestamp", "count()">>, <<"timestamp">>, <<>>, <<>>,
              {<<Item("timestamp", PyStr(v)), Item("count", PyInt(3))>> : v \in {"a", "b"}},
              {<<Item("timestamp", PyStr(v))>> : v \in {"a", "b"}})}

TopConditionsInputs(a) ==
    \E g \in ConditionGroupings, allow_empty \in BOOLEAN :
       \E top_events \in SeqsUpTo(g.top_events, MaxTop), data \in BackendRows(g) :
          a = TopEventsArgs(g, TRUE, TRUE, top_events, TRUE, TRUE,
                            PyDatetime(0), PyDatetime(12),
                            <<PyList(<<PyStr("count"), PyStr("x"), PyStr("count_x")>>)>>,
                            allow_empty, data)

InitTopConditions ==
    /\ op = "top_events_timeseries"
    /\ TopConditionsInputs(inp)
    /\ pc = "call"
    /\ out = NoOut

SpecTopConditions == InitTopConditions /\ [][NextTopEvents]_vars

(***************************************************************************)
(* Claims about top_events_timeseries().                                   *)
(***************************************************************************)
TopEventsDone == op = "top_events_timeseries" /\ pc = "done"

\* the call issued the second backend query
SecondQueryIssued == TopEventsDone /\ CallCount(out.calls, "raw_query") = 1

\* the call went through the routing loop
RoutingDone == TopEventsDone /\ CallCount(out.calls, "transform_data") = 1

ClaimIssues == IF InList("issue", inp.selected_columns) THEN inp.issues ELSE <<>>

\* the result key of a row or top event of the call
ResultKey(row) == create_result_key(row, TranslatedGroupby(inp), ClaimIssues)

TopEventKeys == {ResultKey(inp.top_events[i]) : i \in 1..Len(inp.top_events)}

\* the backend rows under their public names
ResultRows == TransformData(inp.data, inp.translated_columns, inp.filter_rollup,
                            inp.start, inp.end, PyNone)

BoundMissing == inp.start.k = "none" \/ inp.end.k = "none"

\* C9: after the routing loop there is one entry per top event key; a
\* backend row is in the entry of a key exactly when that key is the row's
\* own result key, once, so in at most one entry and in none when no top
\* event has its key, in which case its key is logged; no row makes the call
\* fail: the call fails only when the filter lacks a bound and there is an
\* entry to zerofill, whatever the rows; and in the mapping returned a
\* backend row is in the series of a key exactly when the key is its own.
ThmC9_RowsRoutedByOwnKey ==
    RoutingDone =>
        /\ DOMAIN out.routed = TopEventKeys
        /\ \A k \in DOMAIN out.routed :
              out.routed[k].data =
                  LET Own(row) == ResultKey(row) = k IN SelectSeq(ResultRows, Own)
        /\ \A i \in 1..Len(ResultRows) :
              Cardinality({k \in DOMAIN out.routed :
                              ResultRows[i] \in SeqRange(out.routed[k].data)})
                  = IF ResultKey(ResultRows[i]) \in TopEventKeys THEN 1 ELSE 0
        /\ out.warnings =
              [i \in 1..Len(LET Lost(row) == ResultKey(row) \notin TopEventKeys
                            IN  SelectSeq(ResultRows, Lost)) |->
                  ResultKey((LET Lost(row) == ResultKey(row) \notin TopEventKeys
                             IN  SelectSeq(ResultRows, Lost))[i])]
        /\ out.status = "raised" <=> (BoundMissing /\ TopEventKeys # {})
        /\ out.status = "raised" => out.exc.kind = "AttributeError"
        /\ out.status = "returned" =>
              /\ out.shape = "mapping"
              /\ DOMAIN out.series = TopEventKeys
              /\ \A k \in DOMAIN out.series, i \in 1..Len(ResultRows) :
                    ResultRows[i] \in SeqRange(out.series[k].data)
                        <=> ResultKey(ResultRows[i]) = k

\* C9 witness: a call that returned a mapping of two series, with a backend
\* row whose key is a top event's and one whose key is no top event's.
WitC9_MatchedAndUnmatchedRows ==
    /\ RoutingDone
    /\ out.status = "returned"
    /\ Cardinality(TopEventKeys) = 2
    /\ \E i, j \in 1..Len(ResultRows) :
          /\ ResultKey(ResultRows[i]) \in TopEventKeys
          /\ ResultKey(ResultRows[j]) \notin TopEventKeys

\* the synthetic rows of the range of the call, one per bucket
SyntheticSeries ==
    LET first == (inp.start.n \div inp.rollup) * inp.rollup
        last == (inp.end.n \div inp.rollup) * inp.rollup + inp.rollup
    IN  [i \in 1..((last - first) \div inp.rollup) |->
            <<Item("time", PyInt(first + (i - 1) * inp.rollup))>>]

\* C10 as stated: when the second backend query returns no rows, a call
\* with allow_empty false returns one series made of the synthetic rows of
\* the range, one per bucket, and a call with allow_empty true returns the
\* mapping with one series per top event key.
CexC10_EmptyResultReturnsSeries ==
    (SecondQueryIssued /\ inp.data = <<>>) =>
        /\ out.status = "returned"
        /\ IF inp.allow_empty
           THEN out.shape = "mapping" /\ DOMAIN out.series = TopEventKeys
           ELSE out.shape = "series" /\ out.data = SyntheticSeries

\* the call went through the routing loop and returned its mapping
MappingReturned == RoutingDone /\ out.status = "returned"

\* C19 as stated: the mapping returned has exactly as many series as there
\* are top events, and the order of the series of a top event is the index
\* of that top event in the list, also when two top events have the same
\* result key.
CexC19_OneSeriesPerTopEvent ==
    MappingReturned =>
        /\ Cardinality(DOMAIN out.series) = Len(inp.top_events)
        /\ \A i \in 1..Len(inp.top_events) :
              /\ ResultKey(inp.top_events[i]) \in DOMAIN out.series
              /\ out.series[ResultKey(inp.top_events[i])].order = i - 1

\* the conditions the second query was issued with
InjectedConditions == out.queries[1].conditions

\* the backend's reading of a clause: a null column is in no list and equal
\* to nothing
ClauseHolds(row, clause) ==
    LET value == DictGet(row, clause.column)
    IN  IF clause.isNull THEN value = PyNone
        ELSE value # PyNone /\ value \in clause.values

\* the row satisfies every condition: of each, at least one clause
SatisfiesAll(row, conditions) ==
    \A i \in 1..Len(conditions) : \E clause \in conditions[i].clauses : ClauseHolds(row, clause)

\* the positions of the selected columns that got a condition: not the
\* project, and some top event holds a value for it that is not a list
ConditionedColumns ==
    {i \in 1..Len(inp.selected_columns) :
        /\ inp.selected_columns[i] \notin {"project", "project.id"}
        /\ \E j \in 1..Len(inp.top_events) :
              /\ FieldAlias(inp.selected_columns[i]) \in DictKeys(inp.top_events[j])
              /\ DictItem(inp.top_events[j], FieldAlias(inp.selected_columns[i])).k # "list"}

\* the top event and the backend row have the same value for the selected
\* column at position i
SameValue(event, row, i) ==
    LET field == FieldAlias(inp.selected_columns[i])
        column == IF InFieldAliases(field) THEN field ELSE resolve_discover_column(field)
    IN  /\ field \in DictKeys(event)
        /\ DictItem(event, field) = DictGet(row, column)

\* the backend row passes the injected conditions
Admitted(row) == SatisfiesAll(row, InjectedConditions)

\* C20 as stated: every backend row that satisfies all the injected
\* conditions has, on the selected columns that got a condition, the values
\* of one single top event.
CexC20_AdmittedRowsAreTopEvents ==
    SecondQueryIssued =>
        \A r \in 1..Len(inp.data) :
            Admitted(inp.data[r]) =>
                \E j \in 1..Len(inp.top_events) :
                    \A i \in ConditionedColumns :
                        SameValue(inp.top_events[j], inp.data[r], i)

\* C20, amended: there is one condition per selected column that is not the
\* project and for which some top event holds a value that is not a list,
\* and every backend row that satisfies all the injected conditions has, on
\* each of these columns, the value of some top event: column by column, not
\* necessarily the same top event for all of them.
ThmC20_AdmittedRowsHaveTopEventValues ==
    SecondQueryIssued =>
        /\ Len(InjectedConditions) = Cardinality(ConditionedColumns)
        /\ \A r \in 1..Len(inp.data) :
              Admitted(inp.data[r]) =>
                  \A i \in ConditionedColumns :
                      \E j \in 1..Len(inp.top_events) :
                          SameValue(inp.top_events[j], inp.data[r], i)

\* C20 witness: two conditions were injected, one of them with an isNull
\* clause, and a backend row passes them that has the values of no single
\* top event.
WitC20_AdmittedCrossCombination ==
    /\ SecondQueryIssued
    /\ Len(InjectedConditions) = 2
    /\ \E c \in 1..2 : \E clause \in InjectedConditions[c].clauses : clause.isNull
    /\ \E r \in 1..Len(inp.data) :
          /\ Admitted(inp.data[r])
          /\ \A j \in 1..Len(inp.top_events) :
                \E i \in ConditionedColumns :
                    ~SameValue(inp.top_events[j], inp.data[r], i)

(***************************************************************************)
(* get_facets(), lines 576-736.  A raw backend count is a decimal number   *)
(* kept in tenths (25 is 2.5); the sample rate is kept in tenths too.      *)
(***************************************************************************)
Tenths == 10

\* int(r["count"]), for a count in tenths
IntOfCount(count) == IntOfQuotient(count, Tenths)

\* line 633: 0.1 (1 tenth) or None (0)
SampleRate(sampling_enabled, key_names) ==
    IF sampling_enabled /\ key_names[1].count > 10000 * Tenths THEN 1 ELSE 0

\* line 635: "1 / sample_rate if sample_rate is not None else 1"
Multiplier(sample_rate) ==
    IF sample_rate # 0 THEN PyFloat(Tenths \div sample_rate) ELSE PyInt(1)

MutRescale(count, multiplier) == [multiplier EXCEPT !.n = IntOfCount(count * multiplier.n)]

\* "int(r["count"]) * multiplier": a float when the multiplier is one
Rescale(count, multiplier) == [multiplier EXCEPT !.n = IntOfCount(count) * multiplier.n]

FacetResult(key, value, count) == [key |-> key, value |-> value, count |-> count]

\* One backend call of get_facets(): what it groups by, the tag keys it is
\* about, its sample and turbo arguments, the conditions it was called with
\* and the rows it answered.
FacetQuery(groupby, tags, sample, turbo, conditions, rows) ==
    [groupby |-> groupby, tags |-> tags, sample |-> sample, turbo |-> turbo,
     conditions |-> conditions, rows |-> rows]

\* a condition [column, cmp, values] of snuba_filter.conditions
FacetCondition(column, cmp, values) == [column |-> column, cmp |-> cmp, values |-> values]

MutConditionsAt(conditions, aggregate_tags, appended) ==
    IF aggregate_tags # <<>>
    THEN Append(conditions, FacetCondition("tags_key", "IN", aggregate_tags))
    ELSE conditions

\* What the list snuba_filter.conditions holds when a query is called with
\* it: the resolved conditions, and, once line 713 has run (appended), the
\* condition on tags_key after them.  Lines 614, 650 and 690 read the list
\* before line 713, line 716 after it.
ConditionsAt(conditions, aggregate_tags, appended) ==
    IF appended
    THEN Append(conditions, FacetCondition("tags_key", "IN", aggregate_tags))
    ELSE conditions

MutDropLastTag(top_tags, limit) == SubSeq(top_tags, 1, Len(top_tags) - 1)

\* lines 639-640: "if len(top_tags) == limit: top_tags.pop()"
DropLastTag(top_tags, limit) ==
    IF Len(top_tags) = limit THEN SubSeq(top_tags, 1, Len(top_tags) - 1) ELSE top_tags

\* line 638: "if len(params.get("project_id", [])) > 1"
FetchProjects(project_id) == Len(project_id) > 1

MutIsIndividualTag(top_tags, i, max_aggregate_tags) ==
    ~(i >= Len(top_tags) - max_aggregate_tags)

\* lines 673-680: is the i-th (0-based) of top_tags fetched on its own
IsIndividualTag(top_tags, i, max_aggregate_tags) ==
    \/ top_tags[i + 1] = "environment"
    \/ ~(i >= Len(top_tags) - max_aggregate_tags)

\* the subsequence of xs at the positions in keep
RECURSIVE Pick(_, _, _)
Pick(xs, keep, i) ==
    IF i > Len(xs) THEN <<>>
    ELSE (IF i \in keep THEN <<xs[i]>> ELSE <<>>) \o Pick(xs, keep, i + 1)

RECURSIVE Flatten(_)
Flatten(seqs) == IF seqs = <<>> THEN <<>> ELSE Head(seqs) \o Flatten(Tail(seqs))

\* a row of a backend answer: the tag key (of the aggregate query only),
\* the project id or tag value, and the raw count
FacetRow(tags_key, value, count) == [tags_key |-> tags_key, value |-> value, count |-> count]

\* lines 660-665, 703-708, 729-734: the FacetResults of one answer; key is
\* "" for the aggregate query, which reads r["tags_key"]
FacetResults(key, rows, multiplier) ==
    [i \in 1..Len(rows) |->
        FacetResult(IF key = "" THEN rows[i].tags_key ELSE key, rows[i].value,
                    Rescale(rows[i].count, multiplier))]

FacetsOutcome(a) ==
    LET all_tags == [i \in 1..Len(a.key_names) |-> a.key_names[i].tags_key]
        key_query == FacetQuery("tags_key", <<>>, 0, Len(a.project_id) > 2,
                                ConditionsAt(a.conditions, <<>>, FALSE), a.key_names)
        sample_rate == SampleRate(a.sampling_enabled, a.key_names)
        multiplier == Multiplier(sample_rate)
        fetch_projects == FetchProjects(a.project_id)
        top_tags == IF fetch_projects THEN DropLastTag(all_tags, a.limit) ELSE all_tags
        own == {i \in 1..Len(top_tags) :
                   IsIndividualTag(top_tags, i - 1, a.max_aggregate_tags)}
        individual_tags == Pick(top_tags, own, 1)
        aggregate_tags == Pick(top_tags, (1..Len(top_tags)) \ own, 1)
        project_queries ==
            IF fetch_projects
            THEN <<FacetQuery("project_id", <<>>, sample_rate, sample_rate # 0,
                              ConditionsAt(a.conditions, aggregate_tags, FALSE),
                              a.project_values)>>
            ELSE <<>>
        tag_queries ==
            [i \in 1..Len(individual_tags) |->
                FacetQuery("tags[]", <<individual_tags[i]>>, sample_rate, sample_rate # 0,
                           ConditionsAt(a.conditions, aggregate_tags, FALSE),
                           a.tag_values)]
        aggregate_queries ==
            IF aggregate_tags # <<>>
            THEN <<FacetQuery("tags_key,tags_value", aggregate_tags, sample_rate,
                              sample_rate # 0,
                              ConditionsAt(a.conditions, aggregate_tags, TRUE),
                              Flatten([i \in 1..Len(aggregate_tags) |->
                                  [j \in 1..Len(a.tag_values) |->
                                      FacetRow(aggregate_tags[i], a.tag_values[j].value,
                                               a.tag_values[j].count)]]))>>
            ELSE <<>>
        queries == <<key_query>> \o project_queries \o tag_queries \o aggregate_queries
        results ==
            Flatten([i \in 1..Len(project_queries) |->
                        FacetResults("project", project_queries[i].rows, multiplier)])
            \o Flatten([i \in 1..Len(tag_queries) |->
                        FacetResults(individual_tags[i], tag_queries[i].rows, multiplier)])
            \o Flatten([i \in 1..Len(aggregate_queries) |->
                        FacetResults("", aggregate_queries[i].rows, multiplier)])
        filtered == <<"get_filter", "resolve_discover_aliases", "raw_query">>
    IN  IF ~a.filter_ok
        THEN Raised(InvalidSearchQuery("get_filter", <<>>, FALSE), <<"get_filter">>, <<>>)
        \* lines 625-626: "if not top_tags: return []"
        ELSE IF all_tags = <<>> THEN Returned(filtered, <<key_query>>, <<>>)
        ELSE Returned(filtered \o [i \in 1..(Len(queries) - 1) |-> "raw_query"],
                      queries, results)

\* The calls of get_facets() the model draws.  The key query is ordered by
\* "-count" and excludes the key "project"; only the count of its first row
\* is read.
FacetsArgs(fok, conditions, sampling, max_aggregate, limit, project_id, key_names, project_values, tag_values) ==
    [filter_ok |-> fok, conditions |-> conditions,
     sampling_enabled |-> sampling, max_aggregate_tags |-> max_aggregate,
     limit |-> limit, project_id |-> project_id, key_names |-> key_names,
     project_values |-> project_values, tag_values |-> tag_values]

TagKeys == {"environment", "browser", "os", "device"}

TagKeyLists(limit) ==
    {tags \in SeqsUpTo(TagKeys, limit) :
        \A i, j \in 1..Len(tags) : i < j => tags[i] # tags[j]}

KeyNames(tags, first) ==
    [i \in 1..Len(tags) |-> FacetRow(tags[i], PyNone, IF i = 1 THEN first ELSE 25)]

TagValueInputs ==
    {<<>>, <<FacetRow("", PyStr("a"), 25)>>,
     <<FacetRow("", PyStr("a"), 30), FacetRow("", PyStr("b"), 19)>>}

\* the conditions get_filter and resolve_discover_aliases made of the query
ResolvedConditions == {<<>>, <<FacetCondition("transaction", "=", <<"a">>)>>}

FacetsInputs(a) ==
    \/ a = FacetsArgs(FALSE, <<>>, FALSE, 1, 1, <<>>, <<>>, <<>>, <<>>)
    \/ \E sampling \in BOOLEAN, max_aggregate \in {0, 1, 3}, limit \in 1..MaxTags,
          projects \in 0..3, first \in {100000, 100005, 100010} :
          \E tags \in TagKeyLists(limit), tag_values \in TagValueInputs,
             conditions \in ResolvedConditions :
             a = FacetsArgs(TRUE, conditions, sampling, max_aggregate, limit,
                            [i \in 1..projects |-> i],
                            KeyNames(tags, first),
                            [i \in 1..projects |-> FacetRow("", PyInt(i), 47)],
                            tag_values)

GetFacets ==
    /\ op = "get_facets"
    /\ pc = "call"
    /\ out' = FacetsOutcome(inp)
    /\ pc' = "done"
    /\ UNCHANGED <<op, inp>>

InitFacets ==
    /\ op = "get_facets"
    /\ FacetsInputs(inp)
    /\ pc = "call"
    /\ out = NoOut

NextFacets == GetFacets

SpecFacets == InitFacets /\ [][NextFacets]_vars

(***************************************************************************)
(* Claims about get_facets().                                              *)
(***************************************************************************)
\* a call that found tag keys and returned
FacetsReturned ==
    /\ op = "get_facets" /\ pc = "done"
    /\ out.status = "returned"
    /\ inp.key_names # <<>>

\* sampling is on in the configuration and the first, most frequent key has
\* a count above 10000
SamplingCase == inp.sampling_enabled /\ inp.key_names[1].count > 10000 * Tenths

\* the queries after the key query, and the rows they answered, in order
ValueQueries == SubSeq(out.queries, 2, Len(out.queries))

RawFacetRows == Flatten([i \in 1..Len(ValueQueries) |-> ValueQueries[i].rows])

\* C11: every query after the key query is sampled at 0.1 exactly when
\* sampling is enabled and the most frequent key's count exceeds 10000, and
\* not sampled otherwise; the FacetResults are, in order, one per row these
\* queries answered, each with the row's value and with count the integer
\* part of the row's raw count, times 10 when sampling and times 1 otherwise.
ThmC11_CountsRescaled ==
    FacetsReturned =>
        /\ \A i \in 1..Len(ValueQueries) :
              /\ ValueQueries[i].sample = IF SamplingCase THEN 1 ELSE 0
              /\ ValueQueries[i].turbo = SamplingCase
        /\ Len(out.data) = Len(RawFacetRows)
        /\ \A i \in 1..Len(out.data) :
              /\ out.data[i].value = RawFacetRows[i].value
              /\ out.data[i].count.n =
                    (RawFacetRows[i].count \div Tenths) * (IF SamplingCase THEN 10 ELSE 1)

\* C11 witness: a sampled call that returned a project facet and a tag
\* facet, one of them from a raw count with a fractional part.
WitC11_SampledFractionalCount ==
    /\ FacetsReturned
    /\ SamplingCase
    /\ \E i, j \in 1..Len(out.data) :
          /\ out.data[i].key = "project"
          /\ out.data[j].key # "project"
          /\ RawFacetRows[j].count % Tenths # 0
          /\ out.data[j].count.n = 20

DiscoveredTags == [i \in 1..Len(inp.key_names) |-> inp.key_names[i].tags_key]

\* the tag keys the value queries are about
FetchedTags == UNION {SeqRange(ValueQueries[i].tags) : i \in 1..Len(ValueQueries)}

ProjectQueries == {i \in 1..Len(ValueQueries) : ValueQueries[i].groupby = "project_id"}

ProjectFacets == {i \in 1..Len(out.data) : out.data[i].key = "project"}

AllButLast(xs) == SeqRange(SubSeq(xs, 1, Len(xs) - 1))

\* with one project or none nothing is dropped and there is no project
\* facet; with more there is one project query, and its rows are the first
\* FacetResults, keyed "project"
ProjectFacetsRule ==
    IF Len(inp.project_id) > 1
    THEN /\ ProjectQueries = {1}
         /\ ProjectFacets = 1..Len(inp.project_values)
         /\ \A i \in ProjectFacets : out.data[i].value = inp.project_values[i].value
    ELSE /\ ProjectQueries = {}
         /\ ProjectFacets = {}
         /\ FetchedTags = SeqRange(DiscoveredTags)

RemainingTags ==
    IF Len(inp.project_id) > 1 /\ Len(DiscoveredTags) = inp.limit
    THEN SubSeq(DiscoveredTags, 1, Len(DiscoveredTags) - 1)
    ELSE DiscoveredTags

\* the queries of one tag key each, and the combined ones
IndividualQueries == {i \in 1..Len(ValueQueries) : ValueQueries[i].groupby = "tags[]"}

AggregateQueries ==
    {i \in 1..Len(ValueQueries) : ValueQueries[i].groupby = "tags_key,tags_value"}

IndividualTags == UNION {SeqRange(ValueQueries[i].tags) : i \in IndividualQueries}

AggregateTags == UNION {SeqRange(ValueQueries[i].tags) : i \in AggregateQueries}

\* the keys at the last max_tags_to_combine positions of the remaining ones
TailTags ==
    {RemainingTags[i] : i \in {j \in 1..Len(RemainingTags) :
                                  j > Len(RemainingTags) - inp.max_aggregate_tags}}

\* C21: the individual and the aggregate keys are disjoint and together are
\* the remaining keys; "environment" is never an aggregate key; the
\* aggregate keys are among the last max_tags_to_combine remaining keys and
\* are at most that many; there is one query per individual key, of that key
\* alone, and one combined query exactly when there is an aggregate key,
\* none otherwise, issued after the individual ones.
ThmC21_TagsPartitioned ==
    FacetsReturned =>
        /\ IndividualTags \cap AggregateTags = {}
        /\ IndividualTags \cup AggregateTags = SeqRange(RemainingTags)
        /\ "environment" \notin AggregateTags
        /\ AggregateTags \subseteq TailTags
        /\ Cardinality(AggregateTags) <= inp.max_aggregate_tags
        /\ Cardinality(IndividualQueries) = Cardinality(IndividualTags)
        /\ \A i \in IndividualQueries : Len(ValueQueries[i].tags) = 1
        /\ Cardinality(AggregateQueries) = IF AggregateTags # {} THEN 1 ELSE 0
        /\ \A i \in AggregateQueries :
              /\ i = Len(ValueQueries)
              /\ Len(ValueQueries[i].tags) = Cardinality(AggregateTags)
        /\ Len(ValueQueries) =
              Cardinality(ProjectQueries) + Cardinality(IndividualQueries)
                  + Cardinality(AggregateQueries)

\* C21 witness: "environment" is at one of the last max_tags_to_combine
\* positions and was fetched on its own, while another key of the tail went
\* into the combined query.
WitC21_EnvironmentInTail ==
    /\ FacetsReturned
    /\ "environment" \in TailTags
    /\ "environment" \in IndividualTags
    /\ AggregateTags # {}
    /\ Cardinality(AggregateQueries) = 1

\* a call that got through get_filter
FacetsDone == op = "get_facets" /\ pc = "done" /\ out.status = "returned"

\* C24: the key query, the project query and every query of one tag key
\* were called with exactly the resolved conditions of the filter; the
\* combined query, the last one, with these conditions followed by the one
\* condition ["tags_key", "IN", aggregate_tags] and nothing else; and when
\* the key query finds no tag key the call returns an empty list after that
\* one backend call.
ThmC24_OnlyAggregateQueryRestricted ==
    FacetsDone =>
        /\ \A i \in 1..Len(out.queries) :
              out.queries[i].groupby # "tags_key,tags_value" =>
                  out.queries[i].conditions = inp.conditions
        /\ \A i \in 1..Len(out.queries) :
              out.queries[i].groupby = "tags_key,tags_value" =>
                  /\ i = Len(out.queries)
                  /\ out.queries[i].conditions =
                        Append(inp.conditions,
                               FacetCondition("tags_key", "IN", out.queries[i].tags))
        /\ inp.key_names = <<>> =>
              /\ out.data = <<>>
              /\ Len(out.queries) = 1
              /\ CallCount(out.calls, "raw_query") = 1
        /\ CallCount(out.calls, "raw_query") = Len(out.queries)

\* C24 witness: a call with a resolved condition that ran a project query,
\* a query of one tag key and then the combined query.
WitC24_IndividualThenAggregate ==
    /\ FacetsReturned
    /\ inp.conditions # <<>>
    /\ ProjectQueries # {}
    /\ IndividualQueries # {}
    /\ AggregateQueries # {}
    /\ Len(out.queries[Len(out.queries)].conditions) = Len(inp.conditions) + 1

(***************************************************************************)
(* The histogram builder, lines 739-1019.  A measurement value is a        *)
(* decimal number kept in hundredths (250 is 2.5); None is PyNone.         *)
(***************************************************************************)
Hundredths == 100

PyDecimal(h) == [k |-> "float", s |-> "/100", n |-> h, items |-> <<>>]

\* The thresholds of nice_int() and the integers it returns for them: the
\* fractions 1, 2, 2.5, 5, 10 of each power of ten, rounded up to an
\* integer.  Thresholds are doubled to stay whole.
NiceSteps ==
    <<<<2, 1>>, <<4, 2>>, <<5, 3>>, <<10, 5>>, <<20, 10>>, <<40, 20>>, <<50, 25>>,
      <<100, 50>>, <<200, 100>>, <<400, 200>>, <<500, 250>>, <<1000, 500>>,
      <<2000, 1000>>, <<4000, 2000>>, <<5000, 2500>>, <<10000, 5000>>, <<20000, 10000>>>>

\* nice_int(p / q) for p >= 0 and q > 0: 0 for 0, else the first nice
\* number that is not below p / q
nice_int(p, q) ==
    IF p = 0 THEN 0
    ELSE NiceSteps[CHOOSE i \in 1..Len(NiceSteps) :
                      /\ 2 * p <= NiceSteps[i][1] * q
                      /\ \A j \in 1..(i - 1) : 2 * p > NiceSteps[j][1] * q][2]

HistogramParams(num_buckets, bucket_size, start_offset, multiplier) ==
    [num_buckets |-> num_buckets, bucket_size |-> bucket_size,
     start_offset |-> start_offset, multiplier |-> multiplier]

\* lines 856-857: multiplier * value in hundredths, 0 for None
Scaled(value, multiplier) == IF value = PyNone THEN 0 ELSE multiplier * value.n

\* line 872: "int(scaled_min / bucket_size) * bucket_size"
AlignedOffset(scaled_min, bucket_size) ==
    IntOfQuotient(scaled_min, Hundredths * bucket_size) * bucket_size

find_histogram_params(num_buckets, min_value, max_value, multiplier) ==
    LET scaled_min == Scaled(min_value, multiplier)
        scaled_max == Scaled(max_value, multiplier)
        nice == nice_int(scaled_max - scaled_min, Hundredths * num_buckets)
        bucket_size == IF nice = 0 THEN 1 ELSE nice
        start_offset == AlignedOffset(scaled_min, bucket_size)
        \* lines 877-878
        widened == IF Hundredths * (start_offset + num_buckets * bucket_size) <= scaled_max
                   THEN nice_int(bucket_size + 1, 1) ELSE bucket_size
        last_bin == IntOfQuotient(scaled_max - Hundredths * start_offset,
                                  Hundredths * widened) * widened + start_offset
    IN  IF min_value = PyNone \/ max_value = PyNone
        THEN HistogramParams(num_buckets, 1, IntOfQuotient(scaled_min, Hundredths), multiplier)
        ELSE HistogramParams(((last_bin - start_offset) \div widened) + 1, widened,
                             start_offset, multiplier)

(***************************************************************************)
(* normalize_histogram_results(), lines 975-1019.  A backend row gives the *)
(* measurement name of its key column ("" in a single histogram), its bin  *)
(* as a decimal in hundredths, and its count.                              *)
(***************************************************************************)
HistogramRow(key, bin, count) == [key |-> key, bin |-> bin, count |-> count]

\* "measurements.{}".format(name)
MeasurementField(name) ==
    CASE name = "lcp" -> "measurements.lcp"
      [] name = "fcp" -> "measurements.fcp"
      [] name = "fp" -> "measurements.fp"
      [] OTHER -> "measurements.?"

MutRowField(fields, key_column, row) == fields[1]

\* line 999: the field a row counts for
RowField(fields, key_column, row) ==
    IF key_column = PyNone THEN fields[1] ELSE MeasurementField(row.key)

SetMax(S) == CHOOSE x \in S : \A y \in S : y <= x

MutBinCount(fields, key_column, data, field, bucket) ==
    LET rows == {j \in 1..Len(data) : IntOfQuotient(data[j].bin, Hundredths) = bucket}
    IN  IF rows = {} THEN 0 ELSE data[SetMax(rows)].count

\* lines 996-1005 and 1013: bucket_maps[field].get(bucket, 0), the count of
\* the last row of the field with "int(row[bin_name])" equal to the bucket
BinCount(fields, key_column, data, field, bucket) ==
    LET rows == {j \in 1..Len(data) :
                    /\ RowField(fields, key_column, data[j]) = field
                    /\ IntOfQuotient(data[j].bin, Hundredths) = bucket}
    IN  IF rows = {} THEN 0 ELSE data[SetMax(rows)].count

\* line 1009: the i-th (0-based) bucket
BinOf(histogram_params, i) ==
    histogram_params.start_offset + histogram_params.bucket_size * i

\* lines 1016-1017: "bin" divided by float(multiplier) when it is above 1
AdjustedBin(bucket, multiplier) ==
    IF multiplier > 1 THEN PyDecimal((Hundredths * bucket) \div multiplier)
    ELSE PyInt(bucket)

\* lines 1007-1018: for each bucket, one row appended for each entry of
\* fields to the list of that field
normalize_histogram_results(fields, key_column, histogram_params, data) ==
    [field \in SeqRange(fields) |->
        Flatten([i \in 1..histogram_params.num_buckets |->
            LET bucket == BinOf(histogram_params, i - 1)
                row == [bin |-> AdjustedBin(bucket, histogram_params.multiplier),
                        count |-> BinCount(fields, key_column, data, field, bucket)]
            IN  [j \in 1..Cardinality({n \in 1..Len(fields) : fields[n] = field}) |-> row]])]

(***************************************************************************)
(* find_histogram_min_max(), lines 888-972.  The one row of its query is   *)
(* given field by field: the min, the max and the two quartiles.           *)
(***************************************************************************)
FieldStats(min, max, q1, q3) == [min |-> min, max |-> max, q1 |-> q1, q3 |-> q3]

\* "filter(lambda v: v is not None, values)" as the numbers left
NotNone(values) == {values[i].n : i \in {j \in 1..Len(values) : values[j] # PyNone}}

SetMin(S) == CHOOSE x \in S : \A y \in S : x <= y

\* lines 954-960: the quartiles a fence is computed from
UsableQuartiles(stats) ==
    ~(\/ stats.q1 = PyNone
      \/ stats.q3 = PyNone
      \/ stats.q1 = PyNaN
      \/ stats.q3 = PyNaN)

\* lines 962-963
UpperOuterFence(stats) ==
    LET difference == stats.q3.n - stats.q1.n
        interquartile_range == IF difference < 0 THEN 0 - difference ELSE difference
    IN  stats.q3.n + 3 * interquartile_range

\* lines 945-964: the fences of the fields, none unless outliers are excluded
Fences(row, data_filter) ==
    IF data_filter = PyStr("exclude_outliers")
    THEN {UpperOuterFence(row[i]) : i \in {j \in 1..Len(row) : UsableQuartiles(row[j])}}
    ELSE {}

MutMaxFenceValue(fences) == IF fences # {} THEN PyDecimal(SetMin(fences)) ELSE PyNone

\* line 966: "max(fences) if fences else None"
MaxFenceValue(fences) == IF fences # {} THEN PyDecimal(SetMax(fences)) ELSE PyNone

\* What find_histogram_min_max() leaves behind: the exception raised (NoExc
\* if none), whether it queried, and the pair it returned.
MinMax(exc, queried, min_value, max_value) ==
    [exc |-> exc, queried |-> queried, min_value |-> min_value, max_value |-> max_value]

\* a.data is None, or the rows of the query, each a sequence of FieldStats
find_histogram_min_max(a, min_value, max_value) ==
    LET row == a.data.items[1]
        min_values == NotNone([i \in 1..Len(row) |-> row[i].min])
        max_values == NotNone([i \in 1..Len(row) |-> row[i].max])
        raw_max == IF max_values # {} THEN PyDecimal(SetMax(max_values)) ELSE PyNone
        candidates == NotNone(<<MaxFenceValue(Fences(row, a.data_filter)), raw_max>>)
    IN  IF min_value # PyNone /\ max_value # PyNone
        THEN MinMax(NoExc, FALSE, min_value, max_value)
        ELSE IF ~a.minmax_ok
        THEN MinMax(InvalidSearchQuery("query", <<>>, FALSE), TRUE, PyNone, PyNone)
        \* lines 930-931
        ELSE IF a.data = PyNone \/ Len(a.data.items) # 1
        THEN MinMax(NoExc, TRUE, PyNone, PyNone)
        ELSE MinMax(NoExc, TRUE,
                    IF min_value = PyNone
                    THEN (IF min_values # {} THEN PyDecimal(SetMin(min_values)) ELSE PyNone)
                    ELSE min_value,
                    IF max_value = PyNone
                    THEN (IF candidates # {} THEN PyDecimal(SetMin(candidates)) ELSE PyNone)
                    ELSE max_value)

\* The calls of find_histogram_params() the model draws: determinate
\* bounds have min_value <= max_value.
HistogramValues ==
    {PyDecimal(h) : h \in {0 - 300, 0 - 50, 0, 50, 290, 500, 540, 1000, 1900}}

ParamsArgs(num_buckets, min_value, max_value, multiplier) ==
    [num_buckets |-> num_buckets, min_value |-> min_value, max_value |-> max_value,
     multiplier |-> multiplier]

ParamsInputs(a) ==
    \E num_buckets \in 1..MaxBuckets, multiplier \in {1, 10},
       min_value \in HistogramValues \cup {PyNone},
       max_value \in HistogramValues \cup {PyNone} :
       /\ (min_value # PyNone /\ max_value # PyNone) => min_value.n <= max_value.n
       /\ a = ParamsArgs(num_buckets, min_value, max_value, multiplier)

FindHistogramParams ==
    /\ op = "find_histogram_params"
    /\ pc = "call"
    /\ out' = Returned(<<>>, <<>>,
                       find_histogram_params(inp.num_buckets, inp.min_value, inp.max_value,
                                             inp.multiplier))
    /\ pc' = "done"
    /\ UNCHANGED <<op, inp>>

\* The calls of normalize_histogram_results() the model draws: a single
\* histogram of one field, or a multihistogram of two measurements; rows of
\* the first, the last and the bucket after the last, one per key and bin,
\* for requested and other keys.
FieldInputs ==
    {<<"transaction.duration">>, <<"measurements.lcp">>,
     <<"measurements.lcp", "measurements.fcp">>}

KeyColumn(fields) ==
    IF Len(fields) > 1 THEN PyStr("array_join(measurements_key)") ELSE PyNone

RowKeys(fields) == IF Len(fields) > 1 THEN {"lcp", "fcp", "fp"} ELSE {""}

\* the row of a key in the k-th bucket; counts differ by key and bucket
BucketRow(key, histogram_params, k) ==
    HistogramRow(key, Hundredths * BinOf(histogram_params, k),
                 3 + k + (IF key = "fcp" THEN 10 ELSE 0))

HistogramRows(fields, histogram_params, buckets) ==
    {rows \in SeqsUpTo({BucketRow(key, histogram_params, k) :
                           key \in RowKeys(fields), k \in buckets}, MaxRows) :
        \A i, j \in 1..Len(rows) : i < j => rows[i] # rows[j]}

NormalizeArgs(fields, histogram_params, data) ==
    [fields |-> fields, key_column |-> KeyColumn(fields),
     histogram_params |-> histogram_params, data |-> data]

NormalizeInputs(a) ==
    \E fields \in FieldInputs, num_buckets \in 1..MaxBuckets, bucket_size \in {1, 5},
       start_offset \in {0 - 5, 0, 5}, multiplier \in {1, 10} :
       LET histogram_params ==
               HistogramParams(num_buckets, bucket_size, start_offset, multiplier)
       IN  \E data \in HistogramRows(fields, histogram_params,
                                     {0, num_buckets - 1, num_buckets}) :
              a = NormalizeArgs(fields, histogram_params, data)

NormalizeHistogramResults ==
    /\ op = "normalize_histogram_results"
    /\ pc = "call"
    /\ out' = Returned(<<>>, <<>>,
                       normalize_histogram_results(inp.fields, inp.key_column,
                                                   inp.histogram_params, inp.data))
    /\ pc' = "done"
    /\ UNCHANGED <<op, inp>>

\* The calls of find_histogram_min_max() the model draws.  A field with
\* events has its min, max and quartiles; a field without has no min and no
\* max, and quartiles that are None or NaN.
StatsInputs ==
    {FieldStats(PyNone, PyNone, PyNone, PyNone),
     FieldStats(PyNone, PyNone, PyNaN, PyNaN),
     FieldStats(PyNone, PyNone, PyNone, PyNaN)}
    \cup {FieldStats(PyDecimal(100), PyDecimal(max), PyDecimal(200), PyDecimal(q3)) :
             max \in {1000, 5000}, q3 \in {300, 400, 1500}}

StatsRows(fields) ==
    {row \in SeqsUpTo(StatsInputs, Len(fields)) : Len(row) = Len(fields)}

MinMaxArgs(fields, min_value, max_value, data_filter, minmax_ok, data) ==
    [fields |-> fields, min_value |-> min_value, max_value |-> max_value,
     data_filter |-> data_filter, minmax_ok |-> minmax_ok, data |-> data]

MinMaxInputs(a) ==
    \E fields \in FieldInputs, min_value \in {PyNone, PyDecimal(0)},
       max_value \in {PyNone, PyDecimal(2000)},
       data_filter \in {PyNone, PyStr("exclude_outliers")} :
       \/ a = MinMaxArgs(fields, min_value, max_value, data_filter, FALSE, PyNone)
       \/ \E data \in {PyNone, PyList(<<>>)} :
             a = MinMaxArgs(fields, min_value, max_value, data_filter, TRUE, data)
       \/ \E row \in StatsRows(fields) :
             \/ a = MinMaxArgs(fields, min_value, max_value, data_filter, TRUE,
                               PyList(<<row>>))
             \/ a = MinMaxArgs(fields, min_value, max_value, data_filter, TRUE,
                               PyList(<<row, row>>))

FindHistogramMinMax ==
    /\ op = "find_histogram_min_max"
    /\ pc = "call"
    /\ out' = LET found == find_histogram_min_max(inp, inp.min_value, inp.max_value)
                  calls == IF found.queried THEN <<"query">> ELSE <<>>
              IN  IF found.exc.kind # "" THEN Raised(found.exc, calls, <<>>)
                  ELSE Returned(calls, <<>>, <<found.min_value, found.max_value>>)
    /\ pc' = "done"
    /\ UNCHANGED <<op, inp>>

(***************************************************************************)
(* histogram_query(), lines 744-823.                                       *)
(***************************************************************************)
\* get_measurement_name(field): the name after "measurements.", or None
get_measurement_name(field) ==
    CASE field = "measurements.lcp" -> PyStr("lcp")
      [] field = "measurements.fcp" -> PyStr("fcp")
      [] field = "measurements.fp" -> PyStr("fp")
      [] OTHER -> PyNone

MutMultiHistogram(fields) == Len(fields) >= 1

\* line 784: "if len(fields) > 1"
MultiHistogram(fields) == Len(fields) > 1

\* lines 788-793: the first field that is no measurement, 0 if all are
FirstNotMeasurement(fields) ==
    LET others == {i \in 1..Len(fields) : get_measurement_name(fields[i]) = PyNone}
    IN  IF others = {} THEN 0 ELSE SetMin(others)

\* lines 773-777: the multiplier, and the max of the caller made exclusive
PrecisionMultiplier(precision) == 10 ^ precision

ExclusiveMax(max_value, multiplier) ==
    IF max_value # PyNone THEN PyDecimal(max_value.n - (Hundredths \div 10) \div multiplier)
    ELSE PyNone

\* line 808: the last bin the bucket query admits ("<=")
MaxBin(histogram_params, num_buckets) ==
    histogram_params.start_offset + histogram_params.bucket_size * num_buckets

\* The bucket query: its measurement names, its bounds on the bin and its
\* row limit.
BucketQuery(measurements, min_bin, max_bin, limit) ==
    [measurements |-> measurements, min_bin |-> min_bin, max_bin |-> max_bin,
     limit |-> limit]

\* lines 778-797: the bounds found and the geometry computed from them
HistogramGeometry(a) ==
    LET multiplier == PrecisionMultiplier(a.precision)
        found == find_histogram_min_max(a, a.min_value, ExclusiveMax(a.max_value, multiplier))
    IN  [found |-> found,
         params |-> find_histogram_params(a.num_buckets, found.min_value, found.max_value,
                                          multiplier)]

HistogramQueryOutcome(a) ==
    LET geometry == HistogramGeometry(a)
        found == geometry.found
        histogram_params == geometry.params
        bounds == IF found.queried THEN <<"query_min_max">> ELSE <<>>
        multi == MultiHistogram(a.fields)
        key_column == IF multi THEN PyStr("array_join(measurements_key)") ELSE PyNone
        other == FirstNotMeasurement(a.fields)
        bucket_query ==
            BucketQuery(IF multi
                        THEN [i \in 1..Len(a.fields) |-> get_measurement_name(a.fields[i]).s]
                        ELSE <<>>,
                        histogram_params.start_offset,
                        MaxBin(histogram_params, a.num_buckets),
                        Len(a.fields) * a.num_buckets)
    IN  IF found.exc.kind # "" THEN Raised(found.exc, bounds, <<>>)
        ELSE IF multi /\ other # 0
        THEN Raised(InvalidSearchQuery("multihistogram expected all measurements, received: {}",
                                       <<a.fields[other]>>, FALSE), bounds, <<>>)
        \* lines 801-802
        ELSE IF found.min_value = PyNone \/ found.max_value = PyNone
        THEN Returned(bounds, <<>>,
                      normalize_histogram_results(a.fields, key_column, histogram_params, <<>>))
        ELSE IF ~a.query_ok
        THEN Raised(InvalidSearchQuery("query", <<>>, FALSE),
                    Append(bounds, "query_histogram"), <<bucket_query>>)
        ELSE Returned(Append(bounds, "query_histogram"), <<bucket_query>>,
                      normalize_histogram_results(a.fields, key_column, histogram_params,
                                                  a.rows))

\* The calls of histogram_query() the model draws.  The rows of the bucket
\* query are those its conditions and limit admit: one per requested key
\* and bin, in the order of the bin, from the first bin to max_bin, at most
\* len(fields) * num_buckets of them; bins after the last bucket of the
\* geometry hold events only when the caller set the max.
HistogramArgs(fields, num_buckets, precision, min_value, max_value, data_filter, minmax_ok, data, query_ok, rows) ==
    [fields |-> fields, num_buckets |-> num_buckets, precision |-> precision,
     min_value |-> min_value, max_value |-> max_value, data_filter |-> data_filter,
     minmax_ok |-> minmax_ok, data |-> data, query_ok |-> query_ok, rows |-> rows]

HistogramFieldInputs ==
    FieldInputs \cup {<<"measurements.lcp", "transaction.duration">>}

QueryKeys(fields) ==
    IF Len(fields) > 1
    THEN {get_measurement_name(fields[i]).s :
             i \in {j \in 1..Len(fields) : get_measurement_name(fields[j]) # PyNone}}
    ELSE {""}

AdmittedRows(a) ==
    LET histogram_params == HistogramGeometry(a).params
        last == IF a.max_value # PyNone THEN a.num_buckets
                ELSE histogram_params.num_buckets - 1
    IN  {rows \in SeqsUpTo({BucketRow(key, histogram_params, k) :
                               key \in QueryKeys(a.fields), k \in 0..last}, MaxRows) :
            /\ Len(rows) <= Len(a.fields) * a.num_buckets
            /\ \A i, j \in 1..Len(rows) :
                  i < j => (rows[i] # rows[j] /\ rows[i].bin <= rows[j].bin)}

HistogramInputs(a) ==
    \E fields \in HistogramFieldInputs, num_buckets \in 1..MaxBuckets, precision \in {0, 1},
       data_filter \in {PyNone, PyStr("exclude_outliers")} :
       \/ \E max_value \in {PyDecimal(250), PyDecimal(1000)}, query_ok \in BOOLEAN :
             LET given == HistogramArgs(fields, num_buckets, precision, PyDecimal(0),
                                        max_value, data_filter, TRUE, PyNone, query_ok, <<>>)
             IN  \E rows \in AdmittedRows(given) :
                    /\ ~query_ok => rows = <<>>
                    /\ a = [given EXCEPT !.rows = rows]
       \/ \E minmax_ok \in BOOLEAN, data \in {PyNone, PyList(<<>>)} :
             a = HistogramArgs(fields, num_buckets, precision, PyNone, PyNone, data_filter,
                               minmax_ok, data, TRUE, <<>>)
       \/ \E row \in StatsRows(fields) :
             LET found == HistogramArgs(fields, num_buckets, precision, PyNone, PyNone,
                                        data_filter, TRUE, PyList(<<row>>), TRUE, <<>>)
             IN  \E rows \in AdmittedRows(found) : a = [found EXCEPT !.rows = rows]

HistogramQuery ==
    /\ op = "histogram_query"
    /\ pc = "call"
    /\ out' = HistogramQueryOutcome(inp)
    /\ pc' = "done"
    /\ UNCHANGED <<op, inp>>

InitHistogram ==
    /\ \/ op = "find_histogram_params" /\ ParamsInputs(inp)
       \/ op = "normalize_histogram_results" /\ NormalizeInputs(inp)
       \/ op = "find_histogram_min_max" /\ MinMaxInputs(inp)
       \/ op = "histogram_query" /\ HistogramInputs(inp)
    /\ pc = "call"
    /\ out = NoOut

NextHistogram ==
    \/ FindHistogramParams
    \/ NormalizeHistogramResults
    \/ FindHistogramMinMax
    \/ HistogramQuery

SpecHistogram == InitHistogram /\ [][NextHistogram]_vars

(***************************************************************************)
(* Claims about the histogram builder.                                     *)
(***************************************************************************)
ParamsDone ==
    /\ op = "find_histogram_params" /\ pc = "done"
    /\ inp.min_value # PyNone /\ inp.max_value # PyNone

\* C12 as stated: for determinate min_value <= max_value the geometry
\* returned starts at or below the scaled minimum and ends above the scaled
\* maximum, its bucket size is at least 1 and its start offset is a multiple
\* of the bucket size.
CexC12_GeometryCoversRange ==
    ParamsDone =>
        /\ Hundredths * out.data.start_offset <= inp.multiplier * inp.min_value.n
        /\ inp.multiplier * inp.max_value.n
              < Hundredths * (out.data.start_offset
                              + out.data.num_buckets * out.data.bucket_size)
        /\ out.data.bucket_size >= 1
        /\ out.data.start_offset % out.data.bucket_size = 0

\* multiplier * max_value, in hundredths
ScaledMax == inp.multiplier * inp.max_value.n

\* the lower edge of the i-th (0-based) bucket returned, in hundredths
BucketEdge(i) == Hundredths * (out.data.start_offset + i * out.data.bucket_size)

\* C23 as stated: for determinate bounds the bucket count returned is at
\* least 1 and at most the bucket count requested, and its last bucket is
\* the one that holds multiplier * max_value.
CexC23_BucketCountOnlyShrinks ==
    ParamsDone =>
        /\ out.data.num_buckets >= 1
        /\ out.data.num_buckets <= inp.num_buckets
        /\ BucketEdge(out.data.num_buckets - 1) <= ScaledMax
        /\ ScaledMax < BucketEdge(out.data.num_buckets)

NormalizeDone == op = "normalize_histogram_results" /\ pc = "done"

\* the counts of the rows of a field in a bin
MatchingCounts(field, bucket) ==
    {inp.data[j].count : j \in {n \in 1..Len(inp.data) :
        /\ inp.data[n].bin = Hundredths * bucket
        /\ (IF inp.key_column = PyNone THEN field = inp.fields[1]
            ELSE field = MeasurementField(inp.data[n].key))}}

\* C14: the output has exactly the requested fields; each maps to
\* num_buckets entries, the i-th (from 0) with bin start_offset +
\* i*bucket_size, as an integer when the multiplier is 1 and divided by the
\* multiplier otherwise, so that consecutive bins differ by bucket_size;
\* its count is 0 when no row of the field has that bin and the row's count
\* when one has; rows of other keys change nothing.
ThmC14_OutputShape ==
    NormalizeDone =>
        /\ DOMAIN out.data = SeqRange(inp.fields)
        /\ \A field \in DOMAIN out.data :
              /\ Len(out.data[field]) = inp.histogram_params.num_buckets
              /\ \A i \in 1..Len(out.data[field]) :
                    LET bucket == inp.histogram_params.start_offset
                                    + (i - 1) * inp.histogram_params.bucket_size
                        entry == out.data[field][i]
                    IN  /\ inp.histogram_params.multiplier = 1 => entry.bin = PyInt(bucket)
                        /\ inp.histogram_params.multiplier > 1 =>
                              /\ entry.bin.k = "float"
                              /\ entry.bin.n * inp.histogram_params.multiplier
                                    = Hundredths * bucket
                        /\ MatchingCounts(field, bucket) = {} => entry.count = 0
                        /\ MatchingCounts(field, bucket) # {} =>
                              MatchingCounts(field, bucket) = {entry.count}
              /\ \A i \in 1..(Len(out.data[field]) - 1) :
                    (out.data[field][i + 1].bin.n - out.data[field][i].bin.n)
                        * inp.histogram_params.multiplier
                      = inp.histogram_params.bucket_size
                          * (IF inp.histogram_params.multiplier > 1 THEN Hundredths ELSE 1)

\* C14 witness: a multihistogram of three buckets with a row of a requested
\* key in the last bucket, a row of a key that was not requested, and an
\* empty first bucket.
WitC14_FilledEmptyAndIgnored ==
    /\ NormalizeDone
    /\ Len(inp.fields) = 2
    /\ inp.histogram_params.num_buckets = 3
    /\ \E i, j \in 1..Len(inp.data) : inp.data[i].key = "fp" /\ inp.data[j].key = "lcp"
    /\ out.data["measurements.lcp"][3].count > 0
    /\ out.data["measurements.lcp"][1].count = 0

\* a call excluding outliers, without a max of the caller, whose query
\* answered its one row
OutlierCall ==
    /\ op = "find_histogram_min_max" /\ pc = "done"
    /\ inp.data_filter = PyStr("exclude_outliers")
    /\ inp.max_value = PyNone
    /\ inp.minmax_ok
    /\ inp.data # PyNone /\ Len(inp.data.items) = 1

StatsRow == inp.data.items[1]

\* the fields whose quartiles are both present and not NaN
FencedFields ==
    {i \in 1..Len(StatsRow) :
        /\ StatsRow[i].q1.k = "float" /\ StatsRow[i].q1.s # "nan"
        /\ StatsRow[i].q3.k = "float" /\ StatsRow[i].q3.s # "nan"}

\* Q3 + 3*|Q3 - Q1|
FenceOf(i) ==
    StatsRow[i].q3.n
      + 3 * (IF StatsRow[i].q3.n >= StatsRow[i].q1.n
             THEN StatsRow[i].q3.n - StatsRow[i].q1.n
             ELSE StatsRow[i].q1.n - StatsRow[i].q3.n)

RawMaxes == {StatsRow[i].max.n : i \in {j \in 1..Len(StatsRow) : StatsRow[j].max # PyNone}}

RawMax == IF RawMaxes = {} THEN PyNone ELSE PyDecimal(SetMax(RawMaxes))

\* min(raw max, F)
CappedMax(F) == PyDecimal(IF F < RawMax.n THEN F ELSE RawMax.n)

\* C17 as stated: the maximum returned is the raw max capped by the
\* smallest fence of the fields with usable quartiles.
CexC17_SmallestFenceCaps ==
    OutlierCall =>
        /\ out.status = "returned"
        /\ out.data[2] = IF FencedFields = {} THEN RawMax
                         ELSE CappedMax(SetMin({FenceOf(i) : i \in FencedFields}))

\* C17 amended: the maximum returned is the raw max capped by the largest
\* fence of the fields with usable quartiles; a field with a missing or NaN
\* quartile adds no fence and the call still returns; without a fence the
\* raw max is returned.
ThmC17_LargestFenceCaps ==
    OutlierCall =>
        /\ out.status = "returned"
        /\ out.data[2] = IF FencedFields = {} THEN RawMax
                         ELSE CappedMax(SetMax({FenceOf(i) : i \in FencedFields}))

\* C17 witness: two fields with different fences, both below the raw max,
\* and the larger one returned.
WitC17_TwoFencesBelowMax ==
    /\ OutlierCall
    /\ Cardinality({FenceOf(i) : i \in FencedFields}) = 2
    /\ \A i \in FencedFields : FenceOf(i) < SetMax(RawMaxes)
    /\ out.data[2] = PyDecimal(1000)

HistogramDone == op = "histogram_query" /\ pc = "done"

\* the call received the rows of its bucket query
BucketRowsReceived ==
    /\ HistogramDone
    /\ out.status = "returned"
    /\ CallCount(out.calls, "query_histogram") = 1

RECURSIVE SumOfCounts(_)
SumOfCounts(rows) == IF rows = <<>> THEN 0 ELSE Head(rows).count + SumOfCounts(Tail(rows))

\* the rows received that belong to a field
RowsOfField(field) ==
    LET Belongs(row) == IF Len(inp.fields) > 1 THEN MeasurementField(row.key) = field
                        ELSE field = inp.fields[1]
    IN  SelectSeq(inp.rows, Belongs)

\* C13 as stated: for each requested field the counts of its output bins
\* add up to the counts of the rows of the field the bucket query returned.
CexC13_TotalsPreserved ==
    BucketRowsReceived =>
        \A field \in DOMAIN out.data :
            SumOfCounts(out.data[field]) = SumOfCounts(RowsOfField(field))

\* the bins of the output: start_offset + i*bucket_size, for the geometry
\* the call computed
OutputBins ==
    LET histogram_params == HistogramGeometry(inp).params
    IN  {Hundredths * (histogram_params.start_offset + i * histogram_params.bucket_size) :
            i \in 0..(histogram_params.num_buckets - 1)}

RowsInOutputBins(field) ==
    LET Kept(row) == row.bin \in OutputBins IN SelectSeq(RowsOfField(field), Kept)

\* C13 amended: for each requested field the counts of its output bins add
\* up to the counts of the rows of the field whose bin is an output bin; a
\* row in a bin the "<=" condition admits after the last output bin is left
\* out.
ThmC13_TotalsOfOutputBins ==
    BucketRowsReceived =>
        \A field \in DOMAIN out.data :
            SumOfCounts(out.data[field]) = SumOfCounts(RowsInOutputBins(field))

\* C13 witness: a two-field call that received a row in an output bin for
\* one field and a row after the last output bin.
WitC13_RowAfterLastBin ==
    /\ BucketRowsReceived
    /\ Len(inp.fields) = 2
    /\ \E i, j \in 1..Len(inp.rows) :
          /\ inp.rows[i].bin \in OutputBins /\ inp.rows[i].key = "fcp"
          /\ inp.rows[j].bin \notin OutputBins
    /\ SumOfCounts(out.data["measurements.fcp"]) > 0

\* a non-measurement field in a multihistogram
BadMultiHistogram ==
    /\ Len(inp.fields) > 1
    /\ \E i \in 1..Len(inp.fields) : get_measurement_name(inp.fields[i]) = PyNone

\* C16: a call with more than one field, one of them not a measurement,
\* fails with InvalidSearchQuery and never issues the bucket query; a call
\* with one field is never refused for its field: it fails only when one of
\* its queries fails.
ThmC16_MultiHistogramNeedsMeasurements ==
    HistogramDone =>
        /\ BadMultiHistogram =>
              /\ out.status = "raised"
              /\ out.exc.kind = "InvalidSearchQuery"
              /\ CallCount(out.calls, "query_histogram") = 0
              /\ out.queries = <<>>
        /\ Len(inp.fields) = 1 =>
              /\ out.status = "raised" => out.exc.names = <<>>
              /\ out.status = "raised" <=>
                    \/ CallCount(out.calls, "query_min_max") = 1 /\ ~inp.minmax_ok
                    \/ CallCount(out.calls, "query_histogram") = 1 /\ ~inp.query_ok

\* C16 witness: a two-field call with a field that is no measurement and
\* the bounds given, refused for that field before any query.
WitC16_RefusedField ==
    /\ HistogramDone
    /\ BadMultiHistogram
    /\ out.status = "raised"
    /\ out.exc.names = <<"transaction.duration">>
    /\ out.calls = <<>>

(***************************************************************************)
(* transform_data() on its own: the calls the model draws.  An aggregate   *)
(* of a row is a number, a string or NaN; the filter has a rollup or none. *)
(***************************************************************************)
TransformRows ==
    {<<Item("time", PyInt(time)), Item(key, val)>> :
        time \in {0, 10}, key \in {"avg", "exception_stacks.type"},
        val \in {PyNaN, PyInt(1), PyStr("a")}}

TranslationInputs == {<<>>, <<Item("exception_stacks.type", "error.type")>>}

TransformArgs(data, translated_columns, rollup) ==
    [data |-> data, translated_columns |-> translated_columns, rollup |-> rollup,
     start |-> PyDatetime(0), end |-> PyDatetime(12), orderby |-> PyList(<<PyStr("time")>>)]

TransformInputs(a) ==
    \E data \in SeqsUpTo(TransformRows, MaxRows), translated_columns \in TranslationInputs,
       rollup \in {PyNone, PyInt(10)} :
       a = TransformArgs(data, translated_columns, rollup)

\* lines 142-144: the column descriptors under their public names
RenameMeta(meta, translated_columns) ==
    [i \in 1..Len(meta) |-> Item(Translate(translated_columns, meta[i].key), meta[i].val)]

\* get_json_meta_type of sentry.api.event_search: the type of a known
\* aggregate function when the column is one, the backend's type otherwise;
\* function is "" for function_alias_map.get(name) being None
get_json_meta_type(name, type, function) == IF function # "" THEN function ELSE type

\* lines 118-123: the dictionary of the described columns
RECURSIVE DescribedMeta(_, _, _)
DescribedMeta(meta, function_alias_map, described) ==
    IF meta = <<>> THEN described
    ELSE LET name == Head(meta).key
             function == IF name \in DictKeys(function_alias_map)
                         THEN DictItem(function_alias_map, name) ELSE ""
         IN  DescribedMeta(Tail(meta), function_alias_map,
                 DictSet(described, name,
                         get_json_meta_type(name, Head(meta).val, function)))

\* lines 125-128: "string" for the keys of the first row that have no type
RECURSIVE DefaultMeta(_, _)
DefaultMeta(row, meta) ==
    IF row = <<>> THEN meta
    ELSE DefaultMeta(Tail(row),
                     IF Head(row).key \in DictKeys(meta) THEN meta
                     ELSE DictSet(meta, Head(row).key, "string"))

\* lines 117-129
transform_meta(meta, data, function_alias_map) ==
    LET described == DescribedMeta(meta, function_alias_map, <<>>)
    IN  IF Len(data) > 0 THEN DefaultMeta(data[1], described) ELSE described

\* lines 109-114: the result with its rows transformed and its meta rebuilt
TransformResultsOutcome(a) ==
    LET data == TransformData(a.data, a.translated_columns, a.rollup,
                              a.start, a.end, a.orderby)
    IN  Returned(<<"transform_data", "transform_meta">>, <<>>,
                 [data |-> data,
                  meta |-> transform_meta(RenameMeta(a.meta, a.translated_columns), data,
                                          a.function_alias_map)])

\* The calls of transform_results() the model draws: the rows of one
\* backend answer have the same columns; the backend describes none of
\* them, the time only, or all of them.
ResultRowInputs(key) ==
    {<<Item("time", PyInt(time)), Item(key, val)>> :
        time \in {0, 10}, val \in {PyNaN, PyInt(1), PyStr("a")}}

MetaInputs(key) ==
    {<<>>, <<Item("time", "DateTime")>>,
     <<Item("time", "DateTime"), Item(key, "Float64")>>}

TransformResultsInputs(a) ==
    \E key \in {"avg", "exception_stacks.type"}, rollup \in {PyNone, PyInt(10)},
       translated_columns \in TranslationInputs,
       function_alias_map \in {<<>>, <<Item("avg", "duration")>>} :
       \E data \in SeqsUpTo(ResultRowInputs(key), MaxRows), meta \in MetaInputs(key) :
          a = [data |-> data, meta |-> meta, function_alias_map |-> function_alias_map,
               translated_columns |-> translated_columns, rollup |-> rollup,
               start |-> PyDatetime(0), end |-> PyDatetime(12),
               orderby |-> PyList(<<PyStr("time")>>)]

TransformResults ==
    /\ op = "transform_results"
    /\ pc = "call"
    /\ out' = TransformResultsOutcome(inp)
    /\ pc' = "done"
    /\ UNCHANGED <<op, inp>>

TransformDataCall ==
    /\ op = "transform_data"
    /\ pc = "call"
    /\ out' = Returned(<<>>, <<>>,
                       TransformData(inp.data, inp.translated_columns, inp.rollup,
                                     inp.start, inp.end, inp.orderby))
    /\ pc' = "done"
    /\ UNCHANGED <<op, inp>>

InitTransform ==
    /\ \/ op = "transform_data" /\ TransformInputs(inp)
       \/ op = "transform_results" /\ TransformResultsInputs(inp)
    /\ pc = "call"
    /\ out = NoOut

NextTransform == TransformDataCall \/ TransformResults

SpecTransform == InitTransform /\ [][NextTransform]_vars

(***************************************************************************)
(* Claims about transform_data().                                          *)
(***************************************************************************)
TransformDone == op = "transform_data" /\ pc = "done"

PublicName(key) ==
    IF \E i \in 1..Len(inp.translated_columns) : inp.translated_columns[i].key = key
    THEN (CHOOSE it \in SeqRange(inp.translated_columns) : it.key = key).val
    ELSE key

\* C15 as stated: for every translation map, the empty one included, no
\* row of the result holds a NaN; and without a rollup the rows are the
\* input rows with each key replaced through the map (unchanged when the
\* map does not have it) and each NaN replaced by 0.
CexC15_NoNaNLeft ==
    TransformDone =>
        /\ \A i \in 1..Len(out.data) : \A j \in 1..Len(out.data[i]) :
              out.data[i][j].val # PyNaN
        /\ inp.rollup = PyNone =>
              /\ Len(out.data) = Len(inp.data)
              /\ \A i \in 1..Len(inp.data) :
                    /\ Len(out.data[i]) = Len(inp.data[i])
                    /\ \A j \in 1..Len(inp.data[i]) :
                          /\ out.data[i][j].key = PublicName(inp.data[i][j].key)
                          /\ out.data[i][j].val =
                                IF inp.data[i][j].val = PyNaN THEN PyInt(0)
                                ELSE inp.data[i][j].val

TransformResultsDone == op = "transform_results" /\ pc = "done"

\* the public names of the columns the backend described
DescribedColumns ==
    {Translate(inp.translated_columns, inp.meta[i].key) : i \in 1..Len(inp.meta)}

\* C22 as stated: every key of every returned row, the rows after a
\* synthetic zerofill row included, has an entry in the returned meta, and
\* the entry is "string" when the backend did not describe the column.
CexC22_EveryColumnTyped ==
    TransformResultsDone =>
        \A i \in 1..Len(out.data.data) : \A j \in 1..Len(out.data.data[i]) :
            LET key == out.data.data[i][j].key
            IN  /\ key \in DictKeys(out.data.meta)
                /\ key \notin DescribedColumns => DictItem(out.data.meta, key) = "string"

=============================================================================
